---- MODULE Spec2Model ----
(***************************************************************************)
(* Real-time video capture and relay subsystem of pool-telemetry-web.      *)
(*                                                                         *)
(* Three state machines, each translated from the handler code:            *)
(*   SpecRelay   - handle_mobile_camera_session and MobileVideoSession     *)
(*                 (backend/app/api/websockets/video.py)                   *)
(*   SpecCapture - video_websocket (single viewer path) and CameraManager  *)
(*                 (backend/app/api/websockets/video.py)                   *)
(*   SpecHub     - ConnectionManager and events_websocket                  *)
(*                 (backend/app/api/websockets/events.py)                  *)
(*                                                                         *)
(* The handlers are asyncio coroutines on one event loop: the code between *)
(* two awaits runs without interleaving.  One action of the model is the   *)
(* resumption of a coroutine, the synchronous code that follows, and the   *)
(* effect of the await it then suspends in.  A websocket send hands the    *)
(* message to the transport when it is called and suspends afterwards.     *)
(***************************************************************************)
EXTENDS Integers, Sequences, FiniteSets, TLC

\* ------------------------------------------------------------- bounds
NConns == 3        \* relay connections (producers and consumers)
MaxFrames == 2     \* frame messages one producer sends
NViewers == 2      \* single-viewer (capture) connections
MaxTicks == 2      \* iterations of one viewer's streaming loop
NSubs == 3         \* event subscriber connections
NTasks == 2        \* ConnectionManager.broadcast calls
NGates == 2        \* connection attempts at the two endpoints

Conns == 1..NConns
None == 0          \* Python None for a connection or object reference

RelaySessions == {"S1", "S2"}

Viewers == 1..NViewers
CaptureSessions == {"V1", "V2"}
\* The branches of start_capture (lines 162, 176, 185)
SourceKinds == {"device", "url", "unknown"}

\* A source locator is the sequence of the pieces of its text:
\* device:1, device:x, rtsp://cam, ftp://cam and cam.
\* The empty sequence stands for a configuration not read yet.
Unread == <<>>
Locators == {<<"device", ":", "1">>, <<"device", ":", "x">>,
             <<"rtsp", "://", "cam">>, <<"ftp", "://", "cam">>, <<"cam">>}
UrlSchemes == {"udp", "rtsp", "http", "https"}
Digits == {"0", "1", "2", "3", "4", "5", "6", "7", "8", "9"}

Subs == 1..NSubs
Tasks == 1..NTasks
HubSessions == {"E1", "E2"}

Gates == 1..NGates
AuthRequired == 4001     \* close code: token missing or not verified
SessionNotFound == 4004  \* close code: no session row for the principal
Principals == {"p1", "p2"}
NoPrincipal == ""        \* Python None or "" for a profile id
\* Session ids a client may name: "G1" and "G2" have a row, "G3" has none.
GateSessions == {"G1", "G2", "G3"}
\* The token query parameter: absent (or empty), or a string that jwt.decode
\* accepts or rejects and whose payload carries a "sub" or none.
MissingToken == [given |-> FALSE, decodes |-> FALSE, sub |-> NoPrincipal]
Tokens ==
  {MissingToken} \cup
  [given : {TRUE}, decodes : BOOLEAN, sub : Principals \cup {NoPrincipal}]

VARIABLES
  \* --- relay path (handle_mobile_camera_session) ---
  pc,                    \* position of each relay connection's handler
  sid,                   \* session id of the connection (path parameter)
  vs,                    \* the MobileVideoSession object the handler holds
  is_producer,           \* handler local is_producer
  alive,                 \* the client's transport is open
  mobile_video_sessions, \* registry: session id -> object (None: no entry)
  vsProducer,            \* object -> producer slot
  vsConsumers,           \* object -> list of consumers
  vsFrameCount,          \* object -> frame_count
  status,                \* session status in the external store
  outbox,                \* messages delivered to each connection, in order
  bIdx,                  \* list iterator position of the running broadcast
  bDead,                 \* `disconnected` list of the running broadcast
  nframes,               \* history: frame messages received from a producer
  atReg,                 \* history: consumers registered when it registered
  atDisc,                \* history: consumers registered when it tore down
  role,                  \* history: the role the connection registered in
  bad_json,              \* history: receive_json raised on text that is no JSON
  pruned,                \* history: the teardown found the consumer removed
  \* --- single-viewer path (video_websocket, CameraManager) ---
  vpc,                   \* position of each viewer connection's handler
  vsid,                  \* session id of the viewer connection
  source_path,           \* session id -> its configured source locator,
                         \* fixed when its configuration is first read
  active_cameras,        \* CameraManager.active_cameras: id -> handle
  camLock,               \* CameraManager._lock: its holder
  camWaiters,            \* CameraManager._lock: queue of waiting coroutines
  hstate,                \* native handle: "closed", "open" or "released"
  reading,               \* handle a viewer's executor read is running on
  vstatus,               \* status of capture sessions in the external store
  vout,                  \* messages sent to the viewer, in order
  frame_count,           \* handler local frame_count
  failed_frames,         \* handler local failed_frames
  ticks,                 \* iterations of the streaming loop started
  vend,                  \* history: how the viewer's handler ended
  waited,                \* history: the viewer's start_capture queued for
                         \* the lock
  \* --- event hub (ConnectionManager, events_websocket) ---
  active_connections,    \* session id -> set of connections
  conn_keys,             \* the session ids that are keys of that dict
  disconnected,          \* history: connections disconnect was called for
  hpc,                   \* position of each subscriber's handler
  hsid,                  \* session id of the subscriber
  halive,                \* the subscriber's transport is open
  bpc,                   \* position of each broadcast call
  bsession,              \* session id the broadcast is for
  bstart,                \* history: the subscriber set when it started
  itSize,                \* set iterator: size of the set when created
  itTodo,                \* set iterator: entries it has yet to reach
  itStale,               \* set iterator: its set was deleted from the map
  dead_connections,      \* broadcast local dead_connections
  sent,                  \* history: send_text calls that returned, per
                         \* broadcast and connection
  \* --- connection gateway (video_websocket, events_websocket) ---
  gpc,                   \* position of the handler of each attempt
  endpoint,              \* "video" or "events"
  token,                 \* the token query parameter
  session_id,            \* the session id path parameter
  profile_id,            \* handler local profile_id
  lookups,               \* session lookups made for the attempt
  close_code,            \* code of websocket.close (0: not closed)
  attached,              \* what the accepted connection was attached to
  gsent                  \* messages sent on the connection, in order

relayVars == <<pc, sid, vs, is_producer, alive, mobile_video_sessions,
               vsProducer, vsConsumers, vsFrameCount, status, outbox,
               bIdx, bDead, nframes, atReg, atDisc, role, bad_json,
               pruned>>

camVars == <<vpc, vsid, source_path, active_cameras, camLock, camWaiters,
             hstate, reading, vstatus, vout, frame_count, failed_frames,
             ticks, vend, waited>>

hubVars == <<active_connections, conn_keys, disconnected, hpc, hsid, halive,
             bpc, bsession, bstart, itSize, itTodo, itStale,
             dead_connections, sent>>

gateVars == <<gpc, endpoint, token, session_id, profile_id, lookups,
              close_code, attached, gsent>>

vars == <<relayVars, camVars, hubVars, gateVars>>

\* A MobileVideoSession object is identified by the connection whose handler
\* created it (line 309); None is no object.
Objs == Conns

\* ------------------------------------------------------------- messages
\* Every message is a record of the same shape: its type, the connection
\* whose handler originated it (the payload or timestamp that tells two
\* messages of one type apart), a counter, a flag and the error text.
Msg(t, src, n, flag) ==
  [type |-> t, src |-> src, n |-> n, flag |-> flag, text |-> ""]

ErrorMsg(reason) ==
  [type |-> "error", src |-> None, n |-> 0, flag |-> FALSE, text |-> reason]

\* ------------------------------------------------------------- list helpers
InList(x, s) == \E i \in 1..Len(s) : s[i] = x

\* list.remove(x): removes the first occurrence
RECURSIVE ListRemove(_, _)
ListRemove(s, x) ==
  IF s = <<>> THEN <<>>
  ELSE IF Head(s) = x THEN Tail(s)
  ELSE <<Head(s)>> \o ListRemove(Tail(s), x)

\* for ws in disconnected: if ws in self.consumers: self.consumers.remove(ws)
RECURSIVE RemoveDisconnected(_, _)
RemoveDisconnected(cons, dead) ==
  IF dead = <<>> THEN cons
  ELSE RemoveDisconnected(
         IF InList(Head(dead), cons) THEN ListRemove(cons, Head(dead)) ELSE cons,
         Tail(dead))

ListSet(s) == {s[i] : i \in 1..Len(s)}

\* ------------------------------------------------------------- relay path
RelayInit ==
  /\ pc = [c \in Conns |-> "idle"]
  /\ sid = [c \in Conns |-> "none"]
  /\ vs = [c \in Conns |-> None]
  /\ is_producer = [c \in Conns |-> FALSE]
  /\ alive = [c \in Conns |-> TRUE]
  /\ mobile_video_sessions = [s \in RelaySessions |-> None]
  /\ vsProducer = [o \in Objs |-> None]
  /\ vsConsumers = [o \in Objs |-> <<>>]
  /\ vsFrameCount = [o \in Objs |-> 0]
  /\ status = [s \in RelaySessions |-> "pending"]
  /\ outbox = [c \in Conns |-> <<>>]
  /\ bIdx = [c \in Conns |-> 0]
  /\ bDead = [c \in Conns |-> <<>>]
  /\ nframes = [c \in Conns |-> 0]
  /\ atReg = [c \in Conns |-> {}]
  /\ atDisc = [c \in Conns |-> {}]
  /\ role = [c \in Conns |-> "none"]
  /\ bad_json = [c \in Conns |-> FALSE]
  /\ pruned = [c \in Conns |-> FALSE]

\* websocket.send_json(m) on connection x raises when x's transport is closed
SendRaises(x) == ~alive[x]

Deliver(box, x, m) == [box EXCEPT ![x] = Append(@, m)]

\* Consumers of session id s that are registered (in their consumer loop)
RegisteredConsumers(s) == {x \in Conns : sid[x] = s /\ pc[x] = "c_loop"}

\* The message a broadcast at `site` carries
BroadcastMsg(c, site, n) ==
  CASE site = "bc_connected" -> Msg("producer_connected", c, 0, FALSE)
    [] site = "bc_frame" -> Msg("frame", c, n, FALSE)
    [] site = "bc_disconnected" -> Msg("producer_disconnected", c, 0, FALSE)

\* Where the handler suspends next once the broadcast at `site` has returned
AfterBroadcast(site) ==
  CASE site = "bc_connected" -> "p_status_rec"
    [] site = "bc_frame" -> "p_loop"
    [] site = "bc_disconnected" -> "p_status_done"

\* broadcast_to_consumers sending once more to the head of the list when
\* the iteration is over
BroadcastStepResend(c, site, idx, dead, m) ==
  LET o == vs[c]
      cons == vsConsumers[o]
  IN IF idx <= Len(cons)
     THEN LET x == cons[idx]
          IN /\ outbox' = IF SendRaises(x) THEN outbox ELSE Deliver(outbox, x, m)
             /\ bDead' = [bDead EXCEPT ![c] =
                            IF SendRaises(x) THEN Append(dead, x) ELSE dead]
             /\ bIdx' = [bIdx EXCEPT ![c] = idx + 1]
             /\ pc' = [pc EXCEPT ![c] = site]
             /\ vsConsumers' = vsConsumers
     ELSE /\ vsConsumers' = [vsConsumers EXCEPT ![o] = RemoveDisconnected(cons, dead)]
          /\ bDead' = [bDead EXCEPT ![c] = <<>>]
          /\ bIdx' = [bIdx EXCEPT ![c] = 0]
          /\ pc' = [pc EXCEPT ![c] = AfterBroadcast(site)]
          /\ outbox' = IF cons # <<>> /\ ~SendRaises(cons[1])
                       THEN Deliver(outbox, cons[1], m) ELSE outbox

\* broadcast_to_consumers removing a consumer in the except clause, as
\* soon as its send raises
BroadcastStepPrunesAtOnce(c, site, idx, dead, m) ==
  LET o == vs[c]
      cons == vsConsumers[o]
  IN IF idx <= Len(cons)
     THEN LET x == cons[idx]
          IN /\ outbox' = IF SendRaises(x) THEN outbox ELSE Deliver(outbox, x, m)
             /\ bDead' = [bDead EXCEPT ![c] = dead]
             /\ bIdx' = [bIdx EXCEPT ![c] = idx + 1]
             /\ pc' = [pc EXCEPT ![c] = site]
             /\ vsConsumers' = IF SendRaises(x)
                               THEN [vsConsumers EXCEPT ![o] = ListRemove(cons, x)]
                               ELSE vsConsumers
     ELSE /\ vsConsumers' = vsConsumers
          /\ bDead' = [bDead EXCEPT ![c] = <<>>]
          /\ bIdx' = [bIdx EXCEPT ![c] = 0]
          /\ pc' = [pc EXCEPT ![c] = AfterBroadcast(site)]
          /\ outbox' = outbox

\* MobileVideoSession.broadcast_to_consumers, from one resumption to the next
\* suspension.  The for loop is a list iterator: it reads self.consumers[idx]
\* of the list as it is now, and stops when idx has passed its present end.
\* Past the end, the disconnected consumers are removed and the caller runs
\* on to its next await.
BroadcastStep(c, site, idx, dead, m) ==
  LET o == vs[c]
      cons == vsConsumers[o]
  IN IF idx <= Len(cons)
     THEN LET x == cons[idx]
          IN /\ outbox' = IF SendRaises(x) THEN outbox ELSE Deliver(outbox, x, m)
             /\ bDead' = [bDead EXCEPT ![c] =
                            IF SendRaises(x) THEN Append(dead, x) ELSE dead]
             /\ bIdx' = [bIdx EXCEPT ![c] = idx + 1]
             /\ pc' = [pc EXCEPT ![c] = site]
             /\ vsConsumers' = vsConsumers
     ELSE /\ vsConsumers' = [vsConsumers EXCEPT ![o] = RemoveDisconnected(cons, dead)]
          /\ bDead' = [bDead EXCEPT ![c] = <<>>]
          /\ bIdx' = [bIdx EXCEPT ![c] = 0]
          /\ pc' = [pc EXCEPT ![c] = AfterBroadcast(site)]
          /\ outbox' = outbox

\* the cleanup of lines 418-422 left out
RegistryNotCleaned(s, producerAfter, consumersAfter) == mobile_video_sessions

\* lines 418-422: delete the registry entry of the session id when the
\* handler's object has no producer and no consumers
RegistryAfterCleanup(s, producerAfter, consumersAfter) ==
  IF producerAfter = None /\ Len(consumersAfter) = 0
       /\ mobile_video_sessions[s] # None
  THEN [mobile_video_sessions EXCEPT ![s] = None]
  ELSE mobile_video_sessions

\* lines 305-312: accept, get or create the session object, wait for the role.
\* Connections are interchangeable, and so are session ids: connections are
\* accepted in index order and the first one is for "S1".
RelayAccept(c) ==
  /\ pc[c] = "idle"
  /\ IF c = 1 THEN TRUE ELSE pc[c - 1] # "idle"
  /\ \E s \in RelaySessions :
       /\ c = 1 => s = "S1"
       /\ sid' = [sid EXCEPT ![c] = s]
       /\ IF mobile_video_sessions[s] = None
          THEN /\ mobile_video_sessions' = [mobile_video_sessions EXCEPT ![s] = c]
               /\ vs' = [vs EXCEPT ![c] = c]
          ELSE /\ mobile_video_sessions' = mobile_video_sessions
               /\ vs' = [vs EXCEPT ![c] = mobile_video_sessions[s]]
  /\ pc' = [pc EXCEPT ![c] = "await_role"]
  /\ UNCHANGED <<is_producer, alive, vsProducer, vsConsumers, vsFrameCount,
                 status, outbox, bIdx, bDead, nframes, atReg, atDisc, role, bad_json,
                 pruned>>

\* The client of a registered consumer closes its transport (or the network
\* drops it): from then on a send to it raises.  For a connection in any
\* other position a closed transport shows only as its own receive raising,
\* which the Abort actions cover.
ClientClose(c) ==
  /\ pc[c] = "c_loop"
  /\ alive[c]
  /\ alive' = [alive EXCEPT ![c] = FALSE]
  /\ UNCHANGED <<pc, sid, vs, is_producer, mobile_video_sessions, vsProducer,
                 vsConsumers, vsFrameCount, status, outbox, bIdx, bDead,
                 nframes, atReg, atDisc, role, bad_json,
                 pruned>>

\* lines 403-412, is_producer branch of finally up to its first suspension:
\* clear the slot and start the producer_disconnected broadcast.
ProducerFinally(c) ==
  /\ vsProducer' = [vsProducer EXCEPT ![vs[c]] = None]
  /\ atDisc' = [atDisc EXCEPT ![c] = ListSet(vsConsumers[vs[c]])]
  /\ BroadcastStep(c, "bc_disconnected", 1, <<>>,
                   BroadcastMsg(c, "bc_disconnected", 0))

\* The handler of c returns: its locals are gone, the server closes the
\* socket, and what the client was sent is no longer observed.  A session
\* object that no handler and no registry entry refers to any longer is
\* garbage, and is shown in its initial state.
HandlerReturns(c, registryAfter) ==
  LET o == vs[c]
      garbage == /\ \A s \in RelaySessions : registryAfter[s] # o
                 /\ \A d \in Conns \ {c} : vs[d] # o
  IN /\ pc' = [pc EXCEPT ![c] = "done"]
     /\ alive' = [alive EXCEPT ![c] = FALSE]
     /\ vs' = [vs EXCEPT ![c] = None]
     /\ is_producer' = [is_producer EXCEPT ![c] = FALSE]
     /\ outbox' = [outbox EXCEPT ![c] = <<>>]
     /\ nframes' = [nframes EXCEPT ![c] = 0]
     /\ atReg' = [atReg EXCEPT ![c] = {}]
     /\ atDisc' = [atDisc EXCEPT ![c] = {}]
     /\ vsFrameCount' = IF garbage THEN [vsFrameCount EXCEPT ![o] = 0]
                        ELSE vsFrameCount
     /\ mobile_video_sessions' = registryAfter

\* The consumer branch of finally without its membership test: a connection
\* that is not in the list takes the list's first entry out instead.
PlainFinallyUnguarded(c, consBefore) ==
  LET o == vs[c]
      consAfter == IF InList(c, consBefore) THEN ListRemove(consBefore, c)
                   ELSE IF Len(consBefore) > 0 THEN Tail(consBefore)
                   ELSE consBefore
  IN /\ vsConsumers' = [vsConsumers EXCEPT ![o] = consAfter]
     /\ pruned' = [pruned EXCEPT ![c] = role[c] = "consumer"
                                         /\ ~InList(c, consBefore)]
     /\ HandlerReturns(c, RegistryAfterCleanup(sid[c], vsProducer[o], consAfter))
     /\ UNCHANGED <<sid, vsProducer, status, bIdx, bDead>>

\* The consumer branch of finally writing the status as the producer
\* branch does.
PlainFinallyCompletes(c, consBefore) ==
  LET o == vs[c]
      consAfter == IF InList(c, consBefore) THEN ListRemove(consBefore, c)
                   ELSE consBefore
  IN /\ vsConsumers' = [vsConsumers EXCEPT ![o] = consAfter]
     /\ pruned' = [pruned EXCEPT ![c] = role[c] = "consumer"
                                         /\ ~InList(c, consBefore)]
     /\ status' = [status EXCEPT ![sid[c]] = "completed"]
     /\ HandlerReturns(c, RegistryAfterCleanup(sid[c], vsProducer[o], consAfter))
     /\ UNCHANGED <<sid, vsProducer, bIdx, bDead>>

\* lines 413-422, the other branch of finally: it has no await.
PlainFinally(c, consBefore) ==
  LET o == vs[c]
      consAfter == IF InList(c, consBefore) THEN ListRemove(consBefore, c)
                   ELSE consBefore
  IN /\ vsConsumers' = [vsConsumers EXCEPT ![o] = consAfter]
     /\ pruned' = [pruned EXCEPT ![c] = role[c] = "consumer"
                                         /\ ~InList(c, consBefore)]
     /\ HandlerReturns(c, RegistryAfterCleanup(sid[c], vsProducer[o], consAfter))
     /\ UNCHANGED <<sid, vsProducer, status, bIdx, bDead>>

\* lines 403-422: finally, from where it is entered to its first suspension
RelayFinally(c, consBefore) ==
  IF is_producer[c]
  THEN /\ ProducerFinally(c)
       /\ UNCHANGED <<sid, vs, is_producer, alive, mobile_video_sessions,
                      vsFrameCount, status, nframes, atReg, pruned>>
  ELSE PlainFinally(c, consBefore)

\* lines 321-326: no role message within the timeout
RoleTimeout(c) ==
  /\ pc[c] = "await_role"
  /\ alive[c]
  /\ outbox' = Deliver(outbox, c, ErrorMsg("timeout"))
  /\ pc' = [pc EXCEPT ![c] = "fin"]
  /\ role' = [role EXCEPT ![c] = "timeout"]
  /\ UNCHANGED <<sid, vs, is_producer, alive, mobile_video_sessions, vsProducer,
                 vsConsumers, vsFrameCount, status, bIdx, bDead, nframes,
                 atReg, atDisc, bad_json,
                 pruned>>

\* An unknown first message taken for register_consumer
RoleUnknownAsConsumer(c) ==
  /\ pc[c] = "await_role"
  /\ alive[c]
  /\ outbox' = Deliver(outbox, c, ErrorMsg("unknown role"))
  /\ vsConsumers' = [vsConsumers EXCEPT ![vs[c]] = Append(@, c)]
  /\ pc' = [pc EXCEPT ![c] = "fin"]
  /\ role' = [role EXCEPT ![c] = "unknown"]
  /\ UNCHANGED <<sid, vs, is_producer, alive, mobile_video_sessions, vsProducer,
                 vsFrameCount, status, bIdx, bDead, nframes, atReg, atDisc, bad_json,
                 pruned>>

\* lines 393-397: the first message is a JSON object that declares neither
\* role
RoleUnknown(c) ==
  /\ pc[c] = "await_role"
  /\ alive[c]
  /\ outbox' = Deliver(outbox, c, ErrorMsg("unknown role"))
  /\ pc' = [pc EXCEPT ![c] = "fin"]
  /\ role' = [role EXCEPT ![c] = "unknown"]
  /\ UNCHANGED <<sid, vs, is_producer, alive, mobile_video_sessions, vsProducer,
                 vsConsumers, vsFrameCount, status, bIdx, bDead, nframes,
                 atReg, atDisc, bad_json,
                 pruned>>

\* lines 317-320 raising: the transport closed (WebSocketDisconnect) or the
\* first message is no JSON object (receive_json raises); lines 399-422.
RoleAbort(c) ==
  /\ pc[c] = "await_role"
  /\ RelayFinally(c, vsConsumers[vs[c]])
  /\ UNCHANGED <<role, bad_json>>

\* the return statements of lines 326, 335 and the fall-through of 397
\* resume after their send and run finally
ReturnAfterError(c) ==
  /\ pc[c] = "fin"
  /\ RelayFinally(c, vsConsumers[vs[c]])
  /\ UNCHANGED <<role, bad_json>>

\* lines 328-338 with is_producer set before the slot is tested
RejectProducerFlagged(c) ==
  /\ pc[c] = "await_role"
  /\ alive[c]
  /\ vsProducer[vs[c]] # None
  /\ is_producer' = [is_producer EXCEPT ![c] = TRUE]
  /\ outbox' = Deliver(outbox, c, ErrorMsg("producer already connected"))
  /\ pc' = [pc EXCEPT ![c] = "fin"]
  /\ role' = [role EXCEPT ![c] = "rejected"]
  /\ UNCHANGED <<sid, vs, alive, mobile_video_sessions, vsProducer,
                 vsConsumers, vsFrameCount, status, bIdx, bDead, nframes,
                 atReg, atDisc, bad_json,
                 pruned>>

\* lines 328-335: register_producer while the slot of the handler's object
\* is occupied
RejectProducer(c) ==
  /\ pc[c] = "await_role"
  /\ alive[c]
  /\ vsProducer[vs[c]] # None
  /\ outbox' = Deliver(outbox, c, ErrorMsg("producer already connected"))
  /\ pc' = [pc EXCEPT ![c] = "fin"]
  /\ role' = [role EXCEPT ![c] = "rejected"]
  /\ UNCHANGED <<sid, vs, is_producer, alive, mobile_video_sessions, vsProducer,
                 vsConsumers, vsFrameCount, status, bIdx, bDead, nframes,
                 atReg, atDisc, bad_json,
                 pruned>>

\* lines 328-345: register_producer with the slot free.  The `registered`
\* reply is sent after the slot is taken; when the client has gone by then
\* (closing) the send raises and finally runs with is_producer set.
RegisterProducer(c) ==
  /\ pc[c] = "await_role"
  /\ alive[c]
  /\ vsProducer[vs[c]] = None
  /\ is_producer' = [is_producer EXCEPT ![c] = TRUE]
  /\ atReg' = [atReg EXCEPT ![c] = RegisteredConsumers(sid[c])]
  /\ role' = [role EXCEPT ![c] = "producer"]
  /\ \E closing \in BOOLEAN :
       IF closing
       THEN ProducerFinally(c)
       ELSE /\ vsProducer' = [vsProducer EXCEPT ![vs[c]] = c]
            /\ outbox' = Deliver(outbox, c, Msg("registered", c, 0, FALSE))
            /\ pc' = [pc EXCEPT ![c] = "bc_connected"]
            /\ bIdx' = [bIdx EXCEPT ![c] = 1]
            /\ UNCHANGED <<vsConsumers, bDead, atDisc>>
  /\ UNCHANGED <<sid, vs, alive, mobile_video_sessions, vsFrameCount, status,
                 nframes, bad_json, pruned>>

\* one more consumer of the running broadcast (lines 254-258), or its end
\* (lines 261-263) and the caller's continuation to its next await
BroadcastNext(c) ==
  /\ pc[c] \in {"bc_connected", "bc_frame", "bc_disconnected"}
  /\ BroadcastStep(c, pc[c], bIdx[c], bDead[c], BroadcastMsg(c, pc[c], nframes[c]))
  /\ UNCHANGED <<sid, vs, is_producer, alive, mobile_video_sessions, vsProducer,
                 vsFrameCount, status, nframes, atReg, atDisc, role, bad_json,
                 pruned>>

\* line 354: update_session_status(session_id, "recording") commits
StatusRecording(c) ==
  /\ pc[c] = "p_status_rec"
  /\ status' = [status EXCEPT ![sid[c]] = "recording"]
  /\ pc' = [pc EXCEPT ![c] = "p_loop"]
  /\ UNCHANGED <<sid, vs, is_producer, alive, mobile_video_sessions, vsProducer,
                 vsConsumers, vsFrameCount, outbox, bIdx, bDead, nframes,
                 atReg, atDisc, role, bad_json,
                 pruned>>

\* lines 358-366: a frame message is counted and relayed
ProducerFrame(c) ==
  /\ pc[c] = "p_loop"
  /\ alive[c]
  /\ nframes[c] < MaxFrames
  /\ nframes' = [nframes EXCEPT ![c] = @ + 1]
  /\ vsFrameCount' = [vsFrameCount EXCEPT ![vs[c]] = @ + 1]
  /\ BroadcastStep(c, "bc_frame", 1, <<>>,
                   BroadcastMsg(c, "bc_frame", nframes[c] + 1))
  /\ UNCHANGED <<sid, vs, is_producer, alive, mobile_video_sessions, vsProducer,
                 status, atReg, atDisc, role, bad_json,
                 pruned>>

\* lines 358-369: a JSON object of another type is skipped
ProducerOther(c) ==
  /\ pc[c] = "p_loop"
  /\ alive[c]
  /\ UNCHANGED relayVars

\* lines 368-369 and 403: stop ends the loop
ProducerStop(c) ==
  /\ pc[c] = "p_loop"
  /\ alive[c]
  /\ RelayFinally(c, vsConsumers[vs[c]])
  /\ UNCHANGED <<role, bad_json>>

\* line 358 raising json.JSONDecodeError: the client sent text that is no
\* JSON; it is caught at line 401 and the finally block runs
ProducerInvalid(c) ==
  /\ pc[c] = "p_loop"
  /\ alive[c]
  /\ RelayFinally(c, vsConsumers[vs[c]])
  /\ bad_json' = [bad_json EXCEPT ![c] = TRUE]
  /\ UNCHANGED role

\* line 358 raising: the transport closed (WebSocketDisconnect, line 399) or
\* the message is no JSON object (line 401)
ProducerAbort(c) ==
  /\ pc[c] = "p_loop"
  /\ RelayFinally(c, vsConsumers[vs[c]])
  /\ UNCHANGED <<role, bad_json>>

\* line 412: update_session_status(session_id, "completed") commits
StatusCompleted(c) ==
  /\ pc[c] = "p_status_done"
  /\ status' = [status EXCEPT ![sid[c]] = "completed"]
  /\ pc' = [pc EXCEPT ![c] = "p_cleanup"]
  /\ UNCHANGED <<sid, vs, is_producer, alive, mobile_video_sessions, vsProducer,
                 vsConsumers, vsFrameCount, outbox, bIdx, bDead, nframes,
                 atReg, atDisc, role, bad_json,
                 pruned>>

\* lines 418-422 at the end of the producer's finally
ProducerCleanup(c) ==
  /\ pc[c] = "p_cleanup"
  /\ HandlerReturns(c, RegistryAfterCleanup(sid[c], vsProducer[vs[c]],
                                            vsConsumers[vs[c]]))
  /\ UNCHANGED <<sid, vsProducer, vsConsumers, status, bIdx, bDead, role, bad_json,
                 pruned>>

\* register_consumer with the acknowledgement left out: the connection is
\* appended and waits in its loop.
RegisterConsumerUnacknowledged(c) ==
  /\ pc[c] = "await_role"
  /\ alive[c]
  /\ role' = [role EXCEPT ![c] = "consumer"]
  /\ vsConsumers' = [vsConsumers EXCEPT ![vs[c]] = Append(@, c)]
  /\ pc' = [pc EXCEPT ![c] = "c_loop"]
  /\ UNCHANGED <<sid, vs, is_producer, alive, mobile_video_sessions,
                 vsProducer, vsFrameCount, status, outbox, bIdx, bDead,
                 nframes, atReg, atDisc, bad_json, pruned>>

\* lines 371-382: register_consumer.  When the acknowledgement cannot be
\* sent (closing) the exception runs finally at once (lines 401-422).
RegisterConsumer(c) ==
  /\ pc[c] = "await_role"
  /\ alive[c]
  /\ role' = [role EXCEPT ![c] = "consumer"]
  /\ UNCHANGED bad_json
  /\ LET o == vs[c]
         appended == Append(vsConsumers[o], c)
     IN \E closing \in BOOLEAN :
          IF closing
          THEN RelayFinally(c, appended)
          ELSE /\ vsConsumers' = [vsConsumers EXCEPT ![o] = appended]
               /\ outbox' = Deliver(outbox, c,
                              Msg("registered", c, vsFrameCount[o],
                                  vsProducer[o] # None))
               /\ pc' = [pc EXCEPT ![c] = "c_loop"]
               /\ pruned' = pruned
               /\ UNCHANGED <<sid, vs, is_producer, alive, mobile_video_sessions,
                              vsProducer, vsFrameCount, status, bIdx, bDead,
                              nframes, atReg, atDisc>>

\* lines 385-389: a JSON object other than stop keeps the loop waiting
ConsumerOther(c) ==
  /\ pc[c] = "c_loop"
  /\ alive[c]
  /\ UNCHANGED relayVars

\* lines 388-389: stop
ConsumerStop(c) ==
  /\ pc[c] = "c_loop"
  /\ alive[c]
  /\ RelayFinally(c, vsConsumers[vs[c]])
  /\ UNCHANGED <<role, bad_json>>

\* lines 386 and 390-391: receive_json raised json.JSONDecodeError on text
\* that is no JSON; except Exception leaves the loop
ConsumerInvalid(c) ==
  /\ pc[c] = "c_loop"
  /\ alive[c]
  /\ RelayFinally(c, vsConsumers[vs[c]])
  /\ bad_json' = [bad_json EXCEPT ![c] = TRUE]
  /\ UNCHANGED role

\* lines 390-391: receive_json raised (transport closed, or no JSON object)
ConsumerAbort(c) ==
  /\ pc[c] = "c_loop"
  /\ RelayFinally(c, vsConsumers[vs[c]])
  /\ UNCHANGED <<role, bad_json>>

RelayNext ==
  \E c \in Conns :
    \/ RelayAccept(c) /\ UNCHANGED <<camVars, hubVars, gateVars>>
    \/ ClientClose(c) /\ UNCHANGED <<camVars, hubVars, gateVars>>
    \/ RoleTimeout(c) /\ UNCHANGED <<camVars, hubVars, gateVars>>
    \/ RoleUnknown(c) /\ UNCHANGED <<camVars, hubVars, gateVars>>
    \/ RoleAbort(c) /\ UNCHANGED <<camVars, hubVars, gateVars>>
    \/ ReturnAfterError(c) /\ UNCHANGED <<camVars, hubVars, gateVars>>
    \/ RejectProducer(c) /\ UNCHANGED <<camVars, hubVars, gateVars>>
    \/ RegisterProducer(c) /\ UNCHANGED <<camVars, hubVars, gateVars>>
    \/ BroadcastNext(c) /\ UNCHANGED <<camVars, hubVars, gateVars>>
    \/ StatusRecording(c) /\ UNCHANGED <<camVars, hubVars, gateVars>>
    \/ ProducerFrame(c) /\ UNCHANGED <<camVars, hubVars, gateVars>>
    \/ ProducerOther(c) /\ UNCHANGED <<camVars, hubVars, gateVars>>
    \/ ProducerStop(c) /\ UNCHANGED <<camVars, hubVars, gateVars>>
    \/ ProducerInvalid(c) /\ UNCHANGED <<camVars, hubVars, gateVars>>
    \/ ProducerAbort(c) /\ UNCHANGED <<camVars, hubVars, gateVars>>
    \/ StatusCompleted(c) /\ UNCHANGED <<camVars, hubVars, gateVars>>
    \/ ProducerCleanup(c) /\ UNCHANGED <<camVars, hubVars, gateVars>>
    \/ RegisterConsumer(c) /\ UNCHANGED <<camVars, hubVars, gateVars>>
    \/ ConsumerOther(c) /\ UNCHANGED <<camVars, hubVars, gateVars>>
    \/ ConsumerStop(c) /\ UNCHANGED <<camVars, hubVars, gateVars>>
    \/ ConsumerInvalid(c) /\ UNCHANGED <<camVars, hubVars, gateVars>>
    \/ ConsumerAbort(c) /\ UNCHANGED <<camVars, hubVars, gateVars>>

\* ------------------------------------------------------------- capture path
\* A handle is identified by the viewer whose start_capture opened it.
CaptureInit ==
  /\ vpc = [v \in Viewers |-> "idle"]
  /\ vsid = [v \in Viewers |-> "none"]
  /\ source_path = [s \in CaptureSessions |-> Unread]
  /\ active_cameras = [s \in CaptureSessions |-> None]
  /\ camLock = None
  /\ camWaiters = <<>>
  /\ hstate = [v \in Viewers |-> "closed"]
  /\ reading = [v \in Viewers |-> None]
  /\ vstatus = [s \in CaptureSessions |-> "pending"]
  /\ vout = [v \in Viewers |-> <<>>]
  /\ frame_count = [v \in Viewers |-> 0]
  /\ failed_frames = [v \in Viewers |-> 0]
  /\ ticks = [v \in Viewers |-> 0]
  /\ vend = [v \in Viewers |-> "none"]
  /\ waited = [v \in Viewers |-> FALSE]

\* asyncio.Lock.acquire returns without suspending when the lock is free
\* and nobody queues before the caller; a queued caller is woken in order.
\* The registry without its lock: every caller proceeds at once.
CanAcquireNoLock(v) == TRUE

CanAcquire(v) ==
  camLock = None /\ (camWaiters = <<>> \/ Head(camWaiters) = v)

Dequeued(v) ==
  IF camWaiters # <<>> /\ Head(camWaiters) = v
  THEN Tail(camWaiters) ELSE camWaiters

\* str.startswith
StartsWith(text, prefix) ==
  /\ Len(text) >= Len(prefix)
  /\ SubSeq(text, 1, Len(prefix)) = prefix

\* str.split(":"): the fields between the colons
RECURSIVE Split(_)
Split(text) ==
  IF \A i \in 1..Len(text) : text[i] # ":"
  THEN <<text>>
  ELSE LET k == CHOOSE i \in 1..Len(text) :
                  text[i] = ":" /\ \A j \in 1..(i - 1) : text[j] # ":"
       IN <<SubSeq(text, 1, k - 1)>> \o Split(SubSeq(text, k + 1, Len(text)))

\* int() accepts the field: digits only, at least one
IsInteger(field) ==
  Len(field) > 0 /\ \A i \in 1..Len(field) : field[i] \in Digits

\* lines 164-167: the device index, 0 when the text after the first colon
\* is missing or no integer
DeviceIndexOf(source) ==
  LET parts == Split(source) IN
  IF Len(parts) >= 2 /\ IsInteger(parts[2]) THEN parts[2] ELSE <<"0">>

\* lines 162, 176 and 185: the branch start_capture takes for a locator
SourceBranch(source) ==
  IF StartsWith(source, <<"device", ":">>) THEN "device"
  ELSE IF \E scheme \in UrlSchemes : StartsWith(source, <<scheme, "://">>)
  THEN "url"
  ELSE "unknown"

\* start_capture with the test for a network URL left out: every locator
\* that is no device is opened as a network stream.
StartCaptureBodyOpensAny(v, s, source) ==
  /\ camWaiters' = Dequeued(v)
  /\ IF active_cameras[s] # None
     THEN /\ camLock' = None
          /\ vpc' = [vpc EXCEPT ![v] = "v_status_rec"]
          /\ vout' = vout
     ELSE /\ camLock' = v
          /\ vpc' = [vpc EXCEPT ![v] = "v_opening"]
          /\ vout' = vout

\* CameraManager.start_capture from the point where the lock is taken, and
\* video_websocket up to its next suspension.
StartCaptureBody(v, s, source) ==
  /\ camWaiters' = Dequeued(v)
  /\ IF active_cameras[s] # None
     THEN \* already capturing: return True, then update_session_status
          /\ camLock' = None
          /\ vpc' = [vpc EXCEPT ![v] = "v_status_rec"]
          /\ vout' = vout
     ELSE IF SourceBranch(source) = "unknown"
     THEN \* return False: the error message is sent
          /\ camLock' = None
          /\ vpc' = [vpc EXCEPT ![v] = "v_err"]
          /\ vout' = [vout EXCEPT ![v] = Append(@, "error")]
     ELSE \* run_in_executor(open), suspended with the lock held
          /\ camLock' = v
          /\ vpc' = [vpc EXCEPT ![v] = "v_opening"]
          /\ vout' = vout

\* websocket.accept() returned; start_capture is called.
VAccept(v) ==
  /\ vpc[v] = "idle"
  /\ IF v = 1 THEN TRUE ELSE vpc[v - 1] # "idle"
  /\ \E s \in CaptureSessions, source \in Locators :
       /\ v = 1 => s = "V1"
       /\ source_path[s] # Unread => source = source_path[s]
       /\ source_path' = [source_path EXCEPT ![s] = source]
       /\ vsid' = [vsid EXCEPT ![v] = s]
       /\ IF CanAcquire(v)
          THEN StartCaptureBody(v, s, source) /\ waited' = waited
          ELSE /\ camWaiters' = Append(camWaiters, v)
               /\ vpc' = [vpc EXCEPT ![v] = "v_lock_start"]
               /\ waited' = [waited EXCEPT ![v] = TRUE]
               /\ UNCHANGED <<camLock, vout>>
  /\ UNCHANGED <<active_cameras, hstate, reading, vstatus,
                 frame_count, failed_frames, ticks, vend>>

\* A start_capture that queued for the lock obtains it.
StartCaptureWake(v) ==
  /\ vpc[v] = "v_lock_start"
  /\ CanAcquire(v)
  /\ StartCaptureBody(v, vsid[v], source_path[vsid[v]])
  /\ UNCHANGED <<vsid, source_path, active_cameras, hstate, reading, vstatus,
                 frame_count, failed_frames, ticks, vend, waited>>

\* The executor's open returned: a handle, or None.
VOpened(v) ==
  /\ vpc[v] = "v_opening"
  /\ camLock' = None
  /\ \E cap \in {v, None} :
       IF cap # None
       THEN /\ hstate' = [hstate EXCEPT ![v] = "open"]
            /\ active_cameras' = [active_cameras EXCEPT ![vsid[v]] = cap]
            /\ vpc' = [vpc EXCEPT ![v] = "v_status_rec"]
            /\ vout' = vout
       ELSE /\ vpc' = [vpc EXCEPT ![v] = "v_err"]
            /\ vout' = [vout EXCEPT ![v] = Append(@, "error")]
            /\ UNCHANGED <<hstate, active_cameras>>
  /\ UNCHANGED <<vsid, source_path, camWaiters, reading, vstatus,
                 frame_count, failed_frames, ticks, vend, waited>>

\* The handler's locals die with the handler.
VEnded(v, how) ==
  /\ vpc' = [vpc EXCEPT ![v] = "done"]
  /\ vend' = [vend EXCEPT ![v] = how]
  /\ vout' = [vout EXCEPT ![v] = <<>>]
  /\ frame_count' = [frame_count EXCEPT ![v] = 0]
  /\ failed_frames' = [failed_frames EXCEPT ![v] = 0]
  /\ ticks' = [ticks EXCEPT ![v] = 0]

\* The failure branch without its close and return: the handler goes on
\* to the status update as if the capture had started.
VErrorFallsThrough(v) ==
  /\ vpc[v] = "v_err"
  /\ vpc' = [vpc EXCEPT ![v] = "v_status_rec"]
  /\ UNCHANGED <<vsid, source_path, active_cameras, camLock, camWaiters,
                 hstate, reading, vstatus, vout, frame_count, failed_frames,
                 ticks, vend, waited>>

\* After the error message: websocket.close() and return.
VErrorClose(v) ==
  /\ vpc[v] = "v_err"
  /\ VEnded(v, "open_failed")
  /\ UNCHANGED <<vsid, source_path, active_cameras, camLock, camWaiters,
                 hstate, reading, vstatus, waited>>

\* update_session_status(recording) returned; the connected message is sent.
VStatusRecording(v) ==
  /\ vpc[v] = "v_status_rec"
  /\ vstatus' = [vstatus EXCEPT ![vsid[v]] = "recording"]
  /\ vout' = [vout EXCEPT ![v] = Append(@, "connected")]
  /\ vpc' = [vpc EXCEPT ![v] = "v_connected"]
  /\ UNCHANGED <<vsid, source_path, active_cameras, camLock, camWaiters,
                 hstate, reading, frame_count, failed_frames, ticks, vend, waited>>

\* The connected send raised (the transport is closed): it is outside the
\* try block, so the handler ends without its finally.
VSetupFails(v) ==
  /\ vpc[v] = "v_connected"
  /\ VEnded(v, "setup_failed")
  /\ UNCHANGED <<vsid, source_path, active_cameras, camLock, camWaiters,
                 hstate, reading, vstatus, waited>>

\* capture_frame up to its suspension: the registry is read without the
\* lock; with no adapter it returns None and the handler goes on to poll.
LoopTopBody(v) ==
  /\ ticks' = [ticks EXCEPT ![v] = @ + 1]
  /\ IF active_cameras[vsid[v]] # None
     THEN /\ reading' = [reading EXCEPT ![v] = active_cameras[vsid[v]]]
          /\ vpc' = [vpc EXCEPT ![v] = "v_read"]
          /\ failed_frames' = failed_frames
     ELSE /\ failed_frames' = [failed_frames EXCEPT ![v] = @ + 1]
          /\ vpc' = [vpc EXCEPT ![v] = "v_recv"]
          /\ reading' = reading

\* The connected send or the pacing sleep returned: next iteration.
VLoopTop(v) ==
  /\ vpc[v] \in {"v_connected", "v_sleep"}
  /\ LoopTopBody(v)
  /\ UNCHANGED <<vsid, source_path, active_cameras, camLock, camWaiters,
                 hstate, vstatus, vout, frame_count, vend, waited>>

\* stop_capture reading the adapter with get instead of pop: the handle is
\* released and stays registered.
StopCaptureBodyKeepsEntry(v) ==
  /\ camWaiters' = Dequeued(v)
  /\ camLock' = None
  /\ active_cameras' = active_cameras
  /\ hstate' = IF active_cameras[vsid[v]] # None
               THEN [hstate EXCEPT ![active_cameras[vsid[v]]] = "released"]
               ELSE hstate
  /\ vpc' = [vpc EXCEPT ![v] = "v_status_done"]

\* CameraManager.stop_capture with the lock obtained.
StopCaptureBody(v) ==
  /\ camWaiters' = Dequeued(v)
  /\ camLock' = None
  /\ active_cameras' = [active_cameras EXCEPT ![vsid[v]] = None]
  /\ hstate' = IF active_cameras[vsid[v]] # None
               THEN [hstate EXCEPT ![active_cameras[vsid[v]]] = "released"]
               ELSE hstate
  /\ vpc' = [vpc EXCEPT ![v] = "v_status_done"]

\* Cleanup placed in the stop branch instead of a finally block: any other
\* way out of the loop ends the handler with the adapter left registered.
VideoFinallyOnStopOnly(v, cause) ==
  /\ vend' = [vend EXCEPT ![v] = cause]
  /\ IF cause # "stop"
     THEN /\ vpc' = [vpc EXCEPT ![v] = "done"]
          /\ UNCHANGED <<camWaiters, camLock, active_cameras, hstate>>
     ELSE IF CanAcquire(v)
     THEN StopCaptureBody(v)
     ELSE /\ camWaiters' = Append(camWaiters, v)
          /\ vpc' = [vpc EXCEPT ![v] = "v_lock_stop"]
          /\ UNCHANGED <<camLock, active_cameras, hstate>>

\* The finally block up to its first suspension.
VideoFinally(v, cause) ==
  /\ vend' = [vend EXCEPT ![v] = cause]
  /\ IF CanAcquire(v)
     THEN StopCaptureBody(v)
     ELSE /\ camWaiters' = Append(camWaiters, v)
          /\ vpc' = [vpc EXCEPT ![v] = "v_lock_stop"]
          /\ UNCHANGED <<camLock, active_cameras, hstate>>

\* A failed read treated as fatal: it is counted and the loop is left
\* through the finally block.
VReadDoneFailureEnds(v) ==
  /\ vpc[v] = "v_read"
  /\ reading' = [reading EXCEPT ![v] = None]
  /\ \/ /\ frame_count' = [frame_count EXCEPT ![v] = @ + 1]
        /\ vout' = [vout EXCEPT ![v] = Append(@, "frame")]
        /\ vpc' = [vpc EXCEPT ![v] = "v_recv"]
        /\ UNCHANGED <<failed_frames, vend, camLock, camWaiters,
                       active_cameras, hstate>>
     \/ /\ frame_count' = [frame_count EXCEPT ![v] = @ + 1]
        /\ VideoFinally(v, "disconnect")
        /\ UNCHANGED <<failed_frames, vout>>
     \/ /\ failed_frames' = [failed_frames EXCEPT ![v] = @ + 1]
        /\ VideoFinally(v, "error")
        /\ UNCHANGED <<frame_count, vout>>
  /\ UNCHANGED <<vsid, source_path, vstatus, ticks, waited>>

\* The executor's read returned; a frame is sent, or the failure counted.
\* A read on a handle released meanwhile has no defined outcome.
VReadDone(v) ==
  /\ vpc[v] = "v_read"
  /\ reading' = [reading EXCEPT ![v] = None]
  /\ \/ \* frame read and sent
        /\ frame_count' = [frame_count EXCEPT ![v] = @ + 1]
        /\ vout' = [vout EXCEPT ![v] = Append(@, "frame")]
        /\ vpc' = [vpc EXCEPT ![v] = "v_recv"]
        /\ UNCHANGED <<failed_frames, vend, camLock, camWaiters,
                       active_cameras, hstate>>
     \/ \* frame read, the send raises
        /\ frame_count' = [frame_count EXCEPT ![v] = @ + 1]
        /\ VideoFinally(v, "disconnect")
        /\ UNCHANGED <<failed_frames, vout>>
     \/ \* read failed
        /\ failed_frames' = [failed_frames EXCEPT ![v] = @ + 1]
        /\ vpc' = [vpc EXCEPT ![v] = "v_recv"]
        /\ UNCHANGED <<frame_count, vout, vend, camLock, camWaiters,
                       active_cameras, hstate>>
     \/ \* the read raised
        /\ hstate[reading[v]] = "released"
        /\ VideoFinally(v, "error")
        /\ UNCHANGED <<frame_count, failed_frames, vout>>
  /\ UNCHANGED <<vsid, source_path, vstatus, ticks, waited>>

\* The poll timed out, or the text was not JSON, or not a stop: pace, loop.
VRecvContinue(v) ==
  /\ vpc[v] = "v_recv"
  /\ ticks[v] < MaxTicks
  /\ \/ /\ vpc' = [vpc EXCEPT ![v] = "v_sleep"]
        /\ UNCHANGED <<ticks, reading, failed_frames>>
     \/ LoopTopBody(v)
  /\ UNCHANGED <<vsid, source_path, active_cameras, camLock, camWaiters,
                 hstate, vstatus, vout, frame_count, vend, waited>>

\* The poll returned a stop message, or raised.
VRecvEnd(v) ==
  /\ vpc[v] = "v_recv"
  /\ \E cause \in {"stop", "disconnect", "error"} : VideoFinally(v, cause)
  /\ UNCHANGED <<vsid, source_path, reading, vstatus, vout, frame_count,
                 failed_frames, ticks, waited>>

\* A stop_capture that queued for the lock obtains it.
StopCaptureWake(v) ==
  /\ vpc[v] = "v_lock_stop"
  /\ CanAcquire(v)
  /\ StopCaptureBody(v)
  /\ UNCHANGED <<vsid, source_path, reading, vstatus, vout, frame_count,
                 failed_frames, ticks, vend, waited>>

\* update_session_status(completed) returned; the handler returns.
VStatusCompleted(v) ==
  /\ vpc[v] = "v_status_done"
  /\ vstatus' = [vstatus EXCEPT ![vsid[v]] = "completed"]
  /\ VEnded(v, vend[v])
  /\ UNCHANGED <<vsid, source_path, active_cameras, camLock, camWaiters,
                 hstate, reading, waited>>

CaptureNext ==
  \E v \in Viewers :
       \/ VAccept(v) /\ UNCHANGED <<relayVars, hubVars, gateVars>>
       \/ StartCaptureWake(v) /\ UNCHANGED <<relayVars, hubVars, gateVars>>
       \/ VOpened(v) /\ UNCHANGED <<relayVars, hubVars, gateVars>>
       \/ VErrorClose(v) /\ UNCHANGED <<relayVars, hubVars, gateVars>>
       \/ VStatusRecording(v) /\ UNCHANGED <<relayVars, hubVars, gateVars>>
       \/ VSetupFails(v) /\ UNCHANGED <<relayVars, hubVars, gateVars>>
       \/ VLoopTop(v) /\ UNCHANGED <<relayVars, hubVars, gateVars>>
       \/ VReadDone(v) /\ UNCHANGED <<relayVars, hubVars, gateVars>>
       \/ VRecvContinue(v) /\ UNCHANGED <<relayVars, hubVars, gateVars>>
       \/ VRecvEnd(v) /\ UNCHANGED <<relayVars, hubVars, gateVars>>
       \/ StopCaptureWake(v) /\ UNCHANGED <<relayVars, hubVars, gateVars>>
       \/ VStatusCompleted(v) /\ UNCHANGED <<relayVars, hubVars, gateVars>>

\* ---------------------------------------------------------------- event hub
HubInit ==
  /\ active_connections = [s \in HubSessions |-> {}]
  /\ conn_keys = {}
  /\ disconnected = {}
  /\ hpc = [w \in Subs |-> "idle"]
  /\ hsid = [w \in Subs |-> "none"]
  /\ halive = [w \in Subs |-> TRUE]
  /\ bpc = [t \in Tasks |-> "idle"]
  /\ bsession = [t \in Tasks |-> "none"]
  /\ bstart = [t \in Tasks |-> {}]
  /\ itSize = [t \in Tasks |-> 0]
  /\ itTodo = [t \in Tasks |-> {}]
  /\ itStale = [t \in Tasks |-> FALSE]
  /\ dead_connections = [t \in Tasks |-> {}]
  /\ sent = [t \in Tasks |-> [w \in Subs |-> 0]]

\* The broadcast is suspended inside its for loop over the set of s.
Iterating(t, s) == bpc[t] = "b_send" /\ bsession[t] = s

\* ConnectionManager.disconnect with the emptied set left in the dict.
DisconnectAllKeepsKey(s, X, self) ==
  LET after == active_connections[s] \ X IN
  /\ active_connections' = [active_connections EXCEPT ![s] = after]
  /\ conn_keys' = conn_keys
  /\ disconnected' = disconnected \cup X
  /\ itTodo' = [t \in Tasks |->
                  IF t = self THEN {}
                  ELSE IF Iterating(t, s) THEN itTodo[t] \ X
                  ELSE itTodo[t]]
  /\ itStale' = [t \in Tasks |-> t # self /\ itStale[t]]

\* ConnectionManager.disconnect for each connection of X. The lock is
\* never held across a suspension, so the calls run without interleaving.
\* A call for an id that is no key does nothing (line 38); the call that
\* empties the set deletes the key (lines 40-41).
\* Live iterators of the set lose the discarded entries; deleting the
\* emptied set from the map leaves them on a set of another size.
\* The iterator of the broadcast making the calls (self) is finished.
DisconnectAll(s, X, self) ==
  LET known == s \in conn_keys /\ X # {}
      after == IF known THEN active_connections[s] \ X
               ELSE active_connections[s]
  IN
  /\ active_connections' = [active_connections EXCEPT ![s] = after]
  /\ conn_keys' = IF known /\ after = {} THEN conn_keys \ {s} ELSE conn_keys
  /\ disconnected' = disconnected \cup X
  /\ itTodo' = [t \in Tasks |->
                  IF t = self THEN {}
                  ELSE IF Iterating(t, s) THEN itTodo[t] \ X
                  ELSE itTodo[t]]
  /\ itStale' = [t \in Tasks |->
                   /\ t # self
                   /\ \/ itStale[t]
                      \/ Iterating(t, s) /\ active_connections[s] # {}
                                         /\ after = {}]

\* lines 61-63: get_connection_count
get_connection_count(s) ==
  IF s \in conn_keys THEN Cardinality(active_connections[s])
  ELSE Cardinality({})

\* events_websocket: manager.connect (accept, then add under the lock),
\* then the connected message is sent. Where the new entry lands in the
\* hash table decides whether a live iterator still reaches it.
HubConnect(w) ==
  /\ hpc[w] = "idle"
  /\ IF w = 1 THEN TRUE ELSE hpc[w - 1] # "idle"
  /\ \E s \in HubSessions :
       /\ w = 1 => s = "E1"
       /\ hsid' = [hsid EXCEPT ![w] = s]
       /\ active_connections' =
            [active_connections EXCEPT ![s] = @ \cup {w}]
       /\ conn_keys' = conn_keys \cup {s}
       /\ \E reach \in SUBSET {t \in Tasks : Iterating(t, s)} :
            itTodo' = [t \in Tasks |->
                         IF t \in reach THEN itTodo[t] \cup {w}
                         ELSE itTodo[t]]
  /\ hpc' = [hpc EXCEPT ![w] = "h_connected"]
  /\ UNCHANGED <<disconnected, halive, bpc, bsession, bstart, itSize,
                 itStale, dead_connections, sent>>

\* The connected send returned, or raised outside the try block.
HubConnectedSent(w) ==
  /\ hpc[w] = "h_connected"
  /\ hpc' = [hpc EXCEPT ![w] = IF halive[w] THEN "h_loop" ELSE "done"]
  /\ UNCHANGED <<active_connections, conn_keys, disconnected,
                 hsid, halive, bpc, bsession, bstart,
                 itSize, itTodo, itStale, dead_connections, sent>>

\* The client's transport closes.
HubClientClose(w) ==
  /\ hpc[w] \in {"h_connected", "h_loop"}
  /\ halive[w]
  /\ halive' = [halive EXCEPT ![w] = FALSE]
  /\ UNCHANGED <<active_connections, conn_keys, disconnected,
                 hpc, hsid, bpc, bsession, bstart,
                 itSize, itTodo, itStale, dead_connections, sent>>

\* receive_text raised WebSocketDisconnect: manager.disconnect.
HubReceiveDisconnect(w) ==
  /\ hpc[w] = "h_loop"
  /\ ~halive[w]
  /\ DisconnectAll(hsid[w], {w}, None)
  /\ hpc' = [hpc EXCEPT ![w] = "done"]
  /\ UNCHANGED <<hsid, halive, bpc, bsession, bstart, itSize,
                 dead_connections, sent>>

\* ping, subscribe, another type, or text that is not JSON.
HubMessage(w) ==
  /\ hpc[w] = "h_loop"
  /\ halive[w]
  /\ UNCHANGED hubVars

\* JSON that is not an object: message.get raises, nothing catches it and
\* the handler ends; the server closes the transport.
HubHandlerError(w) ==
  /\ hpc[w] = "h_loop"
  /\ halive[w]
  /\ hpc' = [hpc EXCEPT ![w] = "done"]
  /\ halive' = [halive EXCEPT ![w] = FALSE]
  /\ UNCHANGED <<active_connections, conn_keys, disconnected,
                 hsid, bpc, bsession, bstart, itSize,
                 itTodo, itStale, dead_connections, sent>>

\* One pass of the for loop body: send_text to w, collected when it raises.
SendText(t, w) ==
  IF halive[w]
  THEN /\ sent' = [sent EXCEPT ![t][w] = @ + 1]
       /\ dead_connections' = dead_connections
  ELSE /\ dead_connections' = [dead_connections EXCEPT ![t] = @ \cup {w}]
       /\ sent' = sent

\* broadcast is called: returns for an unknown id, else starts iterating.
HubBroadcastStart(t) ==
  /\ bpc[t] = "idle"
  /\ IF t = 1 THEN TRUE ELSE bpc[t - 1] # "idle"
  /\ \E s \in HubSessions :
       /\ bsession' = [bsession EXCEPT ![t] = s]
       /\ IF s \notin conn_keys \/ active_connections[s] = {}
          THEN /\ bpc' = [bpc EXCEPT ![t] = "b_done"]
               /\ UNCHANGED <<bstart, itSize, itTodo, dead_connections, sent>>
          ELSE /\ bpc' = [bpc EXCEPT ![t] = "b_send"]
               /\ bstart' = [bstart EXCEPT ![t] = active_connections[s]]
               /\ itSize' = [itSize EXCEPT
                               ![t] = Cardinality(active_connections[s])]
               /\ \E w \in active_connections[s] :
                    /\ itTodo' = [itTodo EXCEPT
                                    ![t] = active_connections[s] \ {w}]
                    /\ SendText(t, w)
  /\ UNCHANGED <<active_connections, conn_keys, disconnected, hpc, hsid,
                 halive, itStale>>

\* The send returned and the iterator is advanced: it raises RuntimeError
\* when the set changed size, otherwise yields the next entry; at the end
\* the collected connections are disconnected.
HubBroadcastNext(t) ==
  /\ bpc[t] = "b_send"
  /\ IF itStale[t]
        \/ Cardinality(active_connections[bsession[t]]) # itSize[t]
     THEN /\ bpc' = [bpc EXCEPT ![t] = "b_raised"]
          /\ itSize' = [itSize EXCEPT ![t] = 0]
          /\ itTodo' = [itTodo EXCEPT ![t] = {}]
          /\ itStale' = [itStale EXCEPT ![t] = FALSE]
          /\ UNCHANGED <<active_connections, conn_keys, disconnected,
                 dead_connections, sent>>
     ELSE IF itTodo[t] = {}
     THEN /\ bpc' = [bpc EXCEPT ![t] = "b_done"]
          /\ itSize' = [itSize EXCEPT ![t] = 0]
          /\ DisconnectAll(bsession[t], dead_connections[t], t)
          /\ UNCHANGED <<dead_connections, sent>>
     ELSE /\ \E w \in itTodo[t] :
               /\ itTodo' = [itTodo EXCEPT ![t] = @ \ {w}]
               /\ SendText(t, w)
          /\ UNCHANGED <<active_connections, conn_keys, disconnected,
                 itStale, bpc, itSize>>
  /\ UNCHANGED <<hpc, hsid, halive, bsession, bstart>>

HubNext ==
  \/ \E w \in Subs :
       \/ HubConnect(w) /\ UNCHANGED <<relayVars, camVars, gateVars>>
       \/ HubConnectedSent(w) /\ UNCHANGED <<relayVars, camVars, gateVars>>
       \/ HubClientClose(w) /\ UNCHANGED <<relayVars, camVars, gateVars>>
       \/ HubReceiveDisconnect(w) /\ UNCHANGED <<relayVars, camVars, gateVars>>
       \/ HubMessage(w) /\ UNCHANGED <<relayVars, camVars, gateVars>>
       \/ HubHandlerError(w) /\ UNCHANGED <<relayVars, camVars, gateVars>>
  \/ \E t \in Tasks :
       \/ HubBroadcastStart(t) /\ UNCHANGED <<relayVars, camVars, gateVars>>
       \/ HubBroadcastNext(t) /\ UNCHANGED <<relayVars, camVars, gateVars>>

\* ------------------------------------------------------- connection gateway
\* The sessions table: the profile that owns the row of a session id, and
\* the row's source_type.
SessionOwner(s) ==
  CASE s = "G1" -> "p1"
    [] s = "G2" -> "p2"
    [] OTHER -> NoPrincipal

SessionSourceType(s) == IF s = "G2" THEN "mobile_camera" ELSE "gopro_usb"

\* verify_ws_token reading the payload without verifying the token
verify_unverified(tok) == tok.sub

\* auth.verify_ws_token: the "sub" of a token that decodes, else None
verify_ws_token(tok) ==
  IF ~tok.given THEN NoPrincipal
  ELSE IF ~tok.decodes THEN NoPrincipal
  ELSE tok.sub

\* The lookup by session id alone, not scoped to the profile
SessionRowFoundById(s, principal) == SessionOwner(s) # NoPrincipal

\* get_session_config / the select of events_websocket: the row with this
\* id and this profile_id, if there is one
SessionRowFound(s, principal) ==
  SessionOwner(s) # NoPrincipal /\ SessionOwner(s) = principal

GateInit ==
  /\ gpc = [g \in Gates |-> "new"]
  /\ endpoint = [g \in Gates |-> "none"]
  /\ token = [g \in Gates |-> MissingToken]
  /\ session_id = [g \in Gates |-> "none"]
  /\ profile_id = [g \in Gates |-> NoPrincipal]
  /\ lookups = [g \in Gates |-> 0]
  /\ close_code = [g \in Gates |-> 0]
  /\ attached = [g \in Gates |-> "none"]
  /\ gsent = [g \in Gates |-> <<>>]

\* The handler starts: the token is tested and verified; without a
\* principal the socket is closed with 4001, else the session lookup starts.
GateVerify(g) ==
  /\ gpc[g] = "new"
  /\ IF g = 1 THEN TRUE ELSE gpc[g - 1] # "new"
  /\ \E e \in {"video", "events"}, tok \in Tokens, s \in GateSessions :
       /\ endpoint' = [endpoint EXCEPT ![g] = e]
       /\ token' = [token EXCEPT ![g] = tok]
       /\ session_id' = [session_id EXCEPT ![g] = s]
       /\ IF ~tok.given \/ verify_ws_token(tok) = NoPrincipal
          THEN /\ close_code' = [close_code EXCEPT ![g] = AuthRequired]
               /\ gpc' = [gpc EXCEPT ![g] = "closed"]
               /\ UNCHANGED <<profile_id, lookups>>
          ELSE /\ profile_id' = [profile_id EXCEPT ![g] = verify_ws_token(tok)]
               /\ lookups' = [lookups EXCEPT ![g] = @ + 1]
               /\ gpc' = [gpc EXCEPT ![g] = "lookup"]
               /\ UNCHANGED close_code
  /\ UNCHANGED <<attached, gsent>>

\* The lookup returned: no row closes the socket with 4004; with a row the
\* connection is accepted by the handler its endpoint and source type
\* select.
GateLookupDone(g) ==
  /\ gpc[g] = "lookup"
  /\ IF ~SessionRowFound(session_id[g], profile_id[g])
     THEN /\ close_code' = [close_code EXCEPT ![g] = SessionNotFound]
          /\ gpc' = [gpc EXCEPT ![g] = "closed"]
          /\ UNCHANGED attached
     ELSE /\ gpc' = [gpc EXCEPT ![g] = "accepted"]
          /\ attached' = [attached EXCEPT ![g] =
               IF endpoint[g] = "events" THEN "subscribers"
               ELSE IF SessionSourceType(session_id[g]) = "mobile_camera"
               THEN "relay" ELSE "capture"]
          /\ UNCHANGED close_code
  /\ UNCHANGED <<endpoint, token, session_id, profile_id, lookups, gsent>>

GateNext ==
  \E g \in Gates :
    \/ GateVerify(g) /\ UNCHANGED <<relayVars, camVars, hubVars>>
    \/ GateLookupDone(g) /\ UNCHANGED <<relayVars, camVars, hubVars>>

Init == RelayInit /\ CaptureInit /\ HubInit /\ GateInit

SpecGateway == Init /\ [][GateNext]_vars

SpecHub == Init /\ [][HubNext]_vars

SpecCapture == Init /\ [][CaptureNext]_vars

SpecRelay == Init /\ [][RelayNext]_vars

\* The relay and the event hub side by side. The two share no state
\* (mobile_video_sessions and the ConnectionManager are separate objects),
\* so a behaviour of one with the other at rest shows everything either
\* can do.
RelayAtRest == \A c \in Conns : pc[c] = "idle"

HubAtRest ==
  /\ \A w \in Subs : hpc[w] = "idle"
  /\ \A t \in Tasks : bpc[t] = "idle"

BroadcastersNext ==
  \/ HubAtRest /\ RelayNext
  \/ RelayAtRest /\ HubNext

SpecBroadcasters == Init /\ [][BroadcastersNext]_vars

\* ------------------------------------------------------------- relay claims
\* c has registered as producer and has not begun its teardown
HoldsProducerRole(c) ==
  pc[c] # "done" /\ is_producer[c] /\ vsProducer[vs[c]] = c

\* x is a registered consumer whose transport is open
ConsumerRegistered(x) == pc[x] = "c_loop" /\ alive[x]

IsFrameOf(m, p) == m.type = "frame" /\ m.src = p
FramesOf(box, p) == SelectSeq(box, LAMBDA m : IsFrameOf(m, p))
CountOf(box, m) == Cardinality({i \in 1..Len(box) : box[i] = m})
Positions(box, m) == {i \in 1..Len(box) : box[i] = m}

\* C1: for every session id at most one connection holds the producer role
\* at any instant.
C1_AtMostOneProducer ==
  \A s \in RelaySessions :
    Cardinality({c \in Conns : sid[c] = s /\ HoldsProducerRole(c)}) <= 1

\* C2: once every relay connection of a session id has completed its
\* teardown, the registry holds no entry for that id.
C2_NoDanglingEntry ==
  \A s \in RelaySessions :
    (\A c \in Conns : sid[c] = s => pc[c] = "done")
      => mobile_video_sessions[s] = None

\* a producer and a consumer of "S1" registered, and every connection of the
\* id has returned
C2_Witness ==
  /\ \E p \in Conns : sid[p] = "S1" /\ role[p] = "producer"
  /\ \E x \in Conns : sid[x] = "S1" /\ role[x] = "consumer"
  /\ \A c \in Conns : sid[c] = "S1" => pc[c] = "done"
  /\ mobile_video_sessions["S1"] = None

\* C3: when the producer disconnects, every consumer that remains registered
\* has been sent exactly one producer_disconnected for that disconnect once
\* the teardown broadcast is over, and the status becomes completed.
C3_ProducerDisconnectedDelivered ==
  \A p \in Conns :
    (is_producer[p] /\ pc[p] \in {"p_status_done", "p_cleanup"}) =>
      /\ \A x \in atDisc[p] :
           (ConsumerRegistered(x) /\ InList(x, vsConsumers[vs[p]])) =>
             CountOf(outbox[x], Msg("producer_disconnected", p, 0, FALSE)) = 1
      /\ (pc[p] = "p_cleanup"
            /\ \A q \in Conns \ {p} : ~(sid[q] = sid[p] /\ is_producer[q]))
           => status[sid[p]] = "completed"

\* C4: a consumer registered on a session id before a producer was
\* acknowledged with producer_connected false, then is sent the
\* producer_connected notice of the producer that registers for that id, then
\* every frame that producer relays, in order.
C4_ConsumerBeforeProducer ==
  \A p \in Conns : \A x \in atReg[p] :
    (/\ pc[p] \in {"p_status_rec", "p_loop"}
     /\ ConsumerRegistered(x)
     /\ Head(outbox[x]) = Msg("registered", x, Head(outbox[x]).n, FALSE))
    => LET box == outbox[x]
           notice == Positions(box, Msg("producer_connected", p, 0, FALSE))
       IN /\ Cardinality(notice) = 1
          /\ FramesOf(box, p) = [i \in 1..nframes[p] |-> Msg("frame", p, i, FALSE)]
          /\ \A i \in notice : \A j \in 1..Len(box) :
               IsFrameOf(box[j], p) => i < j

\* C5: consumers that are registered on a relay session and stay registered
\* while its producer sends N frames have each been sent exactly N frames, and
\* a consumer that registered after them is acknowledged with frame_count N.
C5_ExactlyNFrames ==
  \A p \in Conns :
    (is_producer[p] /\ pc[p] = "p_loop") =>
      /\ \A x \in atReg[p] :
           (ConsumerRegistered(x) /\ vs[x] = vs[p]) =>
             Len(FramesOf(outbox[x], p)) = nframes[p]
      /\ \A y \in Conns :
           (ConsumerRegistered(y) /\ vs[y] = vs[p] /\ FramesOf(outbox[y], p) = <<>>) =>
             Head(outbox[y]).n = vsFrameCount[vs[p]]

\* c was answered "producer already connected" and has not yet torn down
Rejected(c) ==
  pc[c] = "fin" /\ outbox[c] = <<ErrorMsg("producer already connected")>>

NoticeBeforeFrames(x, p) ==
  LET box == outbox[x]
      notice == Positions(box, Msg("producer_connected", p, 0, FALSE))
  IN /\ Cardinality(notice) = 1
     /\ \A i \in notice : \A j \in 1..Len(box) :
          IsFrameOf(box[j], p) => i < j

\* No frame of p is relayed before the status update that follows p's
\* registration broadcast has set the status to recording.
RecordingBeforeFrames ==
  [][\A p \in Conns :
       /\ nframes'[p] > nframes[p] => pc[p] = "p_loop"
       /\ (pc'[p] = "p_loop" /\ pc[p] \notin {"p_loop", "bc_frame"})
            => pc[p] = "p_status_rec" /\ status'[sid[p]] = "recording"
       /\ (pc'[p] = "p_status_rec" /\ pc[p] # "p_status_rec")
            => nframes[p] = 0 /\ vsProducer[vs[p]] = p]_vars

\* C11: once the registration broadcast of an accepted producer is over,
\* every consumer that was in the consumer list of its session object when
\* it registered (and is still registered) has been sent the
\* producer_connected notice, ahead of any frame of that producer; and the
\* status is set to recording before the producer's first frame is relayed.
C11_NoticeAndStatusBeforeFrames ==
  /\ [](\A p \in Conns : \A x \in atReg[p] :
          (/\ pc[p] \in {"p_status_rec", "p_loop", "bc_frame"}
           /\ ConsumerRegistered(x) /\ vs[x] = vs[p]
           /\ InList(x, vsConsumers[vs[p]]))
          => NoticeBeforeFrames(x, p))
  /\ RecordingBeforeFrames

\* A producer relayed a frame to a consumer that had the notice first.
RecordingBeforeFramesWitness ==
  \E p \in Conns : \E x \in atReg[p] :
    /\ pc[p] = "p_loop" /\ nframes[p] > 0 /\ status[sid[p]] = "recording"
    /\ NoticeBeforeFrames(x, p) /\ FramesOf(outbox[x], p) # <<>>

\* C12: the frames of a producer in a consumer's inbox carry strictly
\* increasing sequence numbers, of frames that producer has sent (while
\* its handler runs and its count is kept): a subsequence of its send
\* sequence, nothing duplicated or reordered.
C12_FramesInProducerOrder ==
  \A x \in Conns : \A p \in Conns :
    LET fr == FramesOf(outbox[x], p)
    IN /\ pc[p] # "done" => \A i \in 1..Len(fr) : fr[i].n \in 1..nframes[p]
       /\ \A i, j \in 1..Len(fr) : i < j => fr[i].n < fr[j].n

\* Two consumers of one producer: one was sent both frames, the other, which
\* registered later, only the second.
C12_Witness ==
  \E p, x, y \in Conns :
    /\ nframes[p] = 2 /\ pc[x] = "c_loop" /\ pc[y] = "c_loop"
    /\ FramesOf(outbox[x], p) = <<Msg("frame", p, 1, FALSE),
                                  Msg("frame", p, 2, FALSE)>>
    /\ FramesOf(outbox[y], p) = <<Msg("frame", p, 2, FALSE)>>

\* c failed the role handshake, was sent the error and has not torn down
HandshakeFailed(c) ==
  /\ pc[c] = "fin"
  /\ outbox[c] \in {<<ErrorMsg("timeout")>>, <<ErrorMsg("unknown role")>>}

\* C17: a connection whose role message does not arrive in time, or
\* declares an unknown role, is sent the error and nothing else and then
\* ends; it is never in a producer slot or a consumer list, and neither its
\* rejection nor its teardown changes a slot, a consumer list, the status
\* or what another connection was sent.
C17_HandshakeFailure ==
  /\ [](\A c \in Conns :
          /\ (pc[c] = "fin" /\ role[c] \in {"timeout", "unknown"})
               => HandshakeFailed(c)
          /\ role[c] \in {"timeout", "unknown"}
               => /\ pc[c] \in {"fin", "done"} /\ ~is_producer[c]
                  /\ \A o \in Objs :
                       vsProducer[o] # c /\ ~InList(c, vsConsumers[o]))
  /\ [][\A c \in Conns :
          /\ (role'[c] \in {"timeout", "unknown"} /\ role[c] # role'[c])
               => /\ pc[c] = "await_role" /\ HandshakeFailed(c)'
                  /\ vsProducer' = vsProducer /\ vsConsumers' = vsConsumers
                  /\ status' = status
          /\ (HandshakeFailed(c) /\ pc'[c] # pc[c])
               => /\ pc'[c] = "done"
                  /\ vsProducer' = vsProducer /\ vsConsumers' = vsConsumers
                  /\ status' = status
                  /\ \A x \in Conns \ {c} : outbox'[x] = outbox[x]]_vars

\* A timed-out connection has ended while the producer and a consumer of the
\* same session object are still registered.
C17_Witness ==
  \E c, p, x \in Conns :
    /\ pc[c] = "done" /\ role[c] = "timeout" /\ sid[c] = sid[p]
    /\ pc[p] = "p_loop" /\ vsProducer[vs[p]] = p
    /\ pc[x] = "c_loop" /\ vsConsumers[vs[p]] = <<x>>
    /\ mobile_video_sessions[sid[p]] = vs[p]

\* C18: text that is no JSON, received by a registered producer or consumer,
\* is ignored: the connection keeps its place in its loop and the registry,
\* the producer slots, the consumer lists and the status do not change.
C18_InvalidMessageIgnored ==
  [][\A c \in Conns :
       (bad_json'[c] /\ ~bad_json[c])
         => /\ pc'[c] = pc[c]
            /\ mobile_video_sessions' = mobile_video_sessions
            /\ vsProducer' = vsProducer
            /\ vsConsumers' = vsConsumers
            /\ status' = status]_vars

\* Consumer c is in its loop but no longer in its object's consumer list: a
\* broadcast whose send to it raised has pruned it (lines 260-263).
PrunedConsumer(c) ==
  /\ pc[c] = "c_loop"
  /\ ~InList(c, vsConsumers[vs[c]])

DisconnectUnsubscribedNoOp ==
  [][\A w \in Subs :
       (/\ hpc[w] = "h_loop" /\ hpc'[w] = "done" /\ ~halive[w]
        /\ w \notin active_connections[hsid[w]])
         => active_connections' = active_connections]_vars

DisconnectUnsubscribedWitness ==
  \E w, x \in Subs :
    /\ hpc[w] = "h_loop" /\ ~halive[w] /\ hsid[x] = hsid[w] /\ x # w
    /\ active_connections[hsid[w]] = {x}

\* C26: a teardown deletes the registry entry of a session id only when
\* the session object stored under that id is left without a producer and
\* without consumers.
C26_OnlyEmptyEntryDeleted ==
  [][\A s \in RelaySessions :
       (mobile_video_sessions[s] # None /\ mobile_video_sessions'[s] = None)
         => /\ vsProducer'[mobile_video_sessions[s]] = None
            /\ vsConsumers'[mobile_video_sessions[s]] = <<>>]_vars

\* The same of the session object the leaving handler holds, which is the
\* one the code tests (lines 418-419).
OwnObjectEmptyWhenDeleted ==
  [][\A s \in RelaySessions :
       (mobile_video_sessions[s] # None /\ mobile_video_sessions'[s] = None)
         => \E c \in Conns :
              /\ sid[c] = s /\ pc[c] # "done" /\ pc'[c] = "done"
              /\ vsProducer'[vs[c]] = None
              /\ vsConsumers'[vs[c]] = <<>>]_vars

\* An entry was deleted by the last handler of its object.
OwnObjectEmptyWitness ==
  \E c, x \in Conns :
    /\ c # x /\ sid[c] = sid[x] /\ sid[c] \in RelaySessions
    /\ pc[c] = "done" /\ role[c] = "producer"
    /\ pc[x] = "done" /\ role[x] = "consumer"
    /\ mobile_video_sessions[sid[c]] = None

\* x is in the consumer list of the session object its handler holds
InConsumerList(x) == pc[x] = "c_loop" /\ InList(x, vsConsumers[vs[x]])

\* C27: the session object of every connection registered as producer or
\* consumer is the object the registry maps its session id to, and every
\* registered consumer of an id is in the consumer list of the object of
\* that id's producer.
C27_RegisteredInCurrentObject ==
  /\ \A c \in Conns :
       (HoldsProducerRole(c) \/ InConsumerList(c))
         => mobile_video_sessions[sid[c]] = vs[c]
  /\ \A p, x \in Conns :
       (HoldsProducerRole(p) /\ InConsumerList(x) /\ sid[x] = sid[p])
         => InList(x, vsConsumers[vs[p]])

\* box holds message m
Holds(box, m) == \E i \in 1..Len(box) : box[i] = m

\* The message producer p broadcast before its frame k
BroadcastBefore(p, k) ==
  IF k = 1 THEN Msg("producer_connected", p, 0, FALSE)
  ELSE Msg("frame", p, k - 1, FALSE)

\* C28: a consumer that was sent one broadcast of a producer, and so was
\* registered before the next one began, and that is still in the
\* producer's consumer list with its transport open when that next
\* broadcast is over, has been sent it too, whatever registrations and
\* removals of other consumers happened meanwhile.
C28_StayingConsumerIsSent ==
  \A p, x \in Conns :
    (/\ pc[p] = "p_loop" /\ is_producer[p]
     /\ InConsumerList(x) /\ vs[x] = vs[p] /\ alive[x])
      => \A k \in 1..nframes[p] :
           Holds(outbox[x], BroadcastBefore(p, k))
             => Holds(outbox[x], Msg("frame", p, k, FALSE))

\* C30: while a producer whose registration has completed (its status
\* update to recording has committed) is attached to its session, the
\* status of the session is recording.
C30_RecordingWhileAttached ==
  \A p \in Conns :
    (HoldsProducerRole(p) /\ pc[p] \in {"p_loop", "bc_frame"})
      => status[sid[p]] = "recording"

\* The producer_connected and producer_disconnected notices in a box
NoticesOf(box) ==
  SelectSeq(box, LAMBDA m :
    m.type \in {"producer_connected", "producer_disconnected"})

\* No producer registration or teardown is running on object o
NoRegistrationOrTeardown(o) ==
  \A d \in Conns :
    vs[d] = o => pc[d] \notin {"bc_connected", "p_status_rec",
                               "bc_disconnected", "p_status_done",
                               "p_cleanup"}

\* C35: a consumer is sent the producer_connected and producer_disconnected
\* notices in the order of the attachments and detachments, so that, once
\* no registration or teardown is in progress, the last notice a consumer
\* received tells whether a producer is attached.
C35_LastNoticeAgrees ==
  \A x \in Conns :
    (/\ ConsumerRegistered(x)
     /\ NoRegistrationOrTeardown(vs[x])
     /\ NoticesOf(outbox[x]) # <<>>)
    => LET notices == NoticesOf(outbox[x])
           last == notices[Len(notices)]
       IN (last.type = "producer_connected") <=> (vsProducer[vs[x]] # None)

\* C36: the first message a consumer connection receives is its registered
\* acknowledgement: no frame, producer_connected or producer_disconnected
\* message is sent to a connection before that acknowledgement.
C36_AcknowledgementFirst ==
  \A x \in Conns : \A i \in 1..Len(outbox[x]) :
    outbox[x][i].type \in {"frame", "producer_connected",
                           "producer_disconnected"}
      => /\ i > 1
         /\ role[x] = "consumer"
         /\ Head(outbox[x]).type = "registered"
         /\ Head(outbox[x]).src = x

\* A consumer registered while the broadcast of a producer's first frame
\* was running: it was acknowledged with frame counter 1 and then sent
\* that frame.
C36_Witness ==
  \E x, p \in Conns :
    /\ ConsumerRegistered(x)
    /\ Len(outbox[x]) >= 2
    /\ Head(outbox[x]) = Msg("registered", x, 1, TRUE)
    /\ outbox[x][2] = Msg("frame", p, 1, FALSE)

BroadcastSites == {"bc_connected", "bc_frame", "bc_disconnected"}

\* A step of c's broadcast_to_consumers that leaves it inside its for loop
\* changes no consumer list and at most records the consumer whose send
\* raised.
RelayPassOnlyRecords(c) ==
  (pc'[c] \in BroadcastSites /\ bIdx'[c] # bIdx[c]) =>
    /\ vsConsumers' = vsConsumers
    /\ \/ bDead'[c] = bDead[c]
       \/ \E x \in Conns : ~alive[x] /\ bDead'[c] = Append(bDead[c], x)

\* The step in which c's broadcast_to_consumers returns: its for loop has
\* passed the end of the list, and it removes the recorded consumers and
\* nothing else.
RelayPassPrunesAtEnd(c) ==
  (pc[c] \in BroadcastSites /\ pc'[c] \notin BroadcastSites) =>
    LET before == ListSet(vsConsumers[vs[c]])
        after == ListSet(vsConsumers'[vs[c]])
    IN /\ bIdx[c] > Len(vsConsumers[vs[c]])
       /\ before \ after = before \cap ListSet(bDead[c])
       /\ after \subseteq before
       /\ \A o \in Objs \ {vs[c]} : vsConsumers'[o] = vsConsumers[o]

\* A step of broadcast t of the hub that sends (its send returned or
\* raised) changes no subscriber set.
HubPassOnlyRecords(t) ==
  (sent'[t] # sent[t] \/ dead_connections'[t] # dead_connections[t]) =>
    /\ active_connections' = active_connections
    /\ conn_keys' = conn_keys
    /\ dead_connections[t] \subseteq dead_connections'[t]
    /\ \A w \in dead_connections'[t] \ dead_connections[t] : ~halive[w]

\* The step in which broadcast t leaves its for loop: when it returns the
\* iterator is exhausted and exactly the recorded connections are removed;
\* when it raises nothing is removed.
HubPassPrunesAtEnd(t) ==
  (bpc[t] = "b_send" /\ bpc'[t] # "b_send") =>
    LET before == active_connections[bsession[t]]
        after == active_connections'[bsession[t]]
    IN /\ bpc'[t] = "b_done" =>
            /\ itTodo[t] = {}
            /\ before \ after = before \cap dead_connections[t]
       /\ bpc'[t] = "b_raised" => after = before
       /\ after \subseteq before
       /\ \A s \in HubSessions \ {bsession[t]} :
            active_connections'[s] = active_connections[s]

HubPassWitness ==
  \E t \in Tasks : \E w \in Subs :
    /\ bpc[t] = "b_send"
    /\ w \in dead_connections[t] \cap active_connections[bsession[t]]
    /\ \E x \in active_connections[bsession[t]] : sent[t][x] = 1

\* The relay of p's current frame returns after a send that raised
FrameRelayEndsWithFailure(p) ==
  /\ pc[p] = "bc_frame" /\ pc'[p] # "bc_frame"
  /\ bDead[p] # <<>>

\* The consumers whose send raised are out of the list and were not sent
\* the frame, and the producer is back in its relay loop.
FailedConsumersDropped(p) ==
  /\ \A x \in ListSet(bDead[p]) :
       /\ ~InList(x, vsConsumers'[vs[p]])
       /\ CountOf(outbox'[x], Msg("frame", p, nframes[p], FALSE)) = 0
  /\ pc'[p] = "p_loop"

\* y was acknowledged as consumer before p received its current frame (the
\* acknowledgement carries the frame counter)
RegisteredBeforeFrame(y, p) ==
  /\ ConsumerRegistered(y)
  /\ outbox[y] # <<>> /\ Head(outbox[y]).type = "registered"
  /\ Head(outbox[y]).n < nframes[p]

\* Every other consumer in the list stays in it and, if it was registered
\* before the frame came in and its transport is open, was sent the frame
\* once.
OtherConsumersServed(p) ==
  \A y \in ListSet(vsConsumers[vs[p]]) \ ListSet(bDead[p]) :
    /\ InList(y, vsConsumers'[vs[p]])
    /\ RegisteredBeforeFrame(y, p) =>
         CountOf(outbox'[y], Msg("frame", p, nframes[p], FALSE)) = 1

\* C38: when a frame is relayed, a consumer whose send fails is removed
\* from the consumer set and is not sent the frame again; every other
\* consumer in the set is sent the frame and stays in the set, and the
\* producer's relay loop continues.
C38_FailedConsumerDroppedOthersServed ==
  [][\A p \in Conns :
       FrameRelayEndsWithFailure(p)
         => FailedConsumersDropped(p) /\ OtherConsumersServed(p)]_vars

\* The part of C38 about the failing consumer and the producer's loop.
FailedConsumerDroppedLoopContinues ==
  [][\A p \in Conns :
       FrameRelayEndsWithFailure(p) => FailedConsumersDropped(p)]_vars

FailedConsumerDroppedWitness ==
  \E p, x, y \in Conns :
    /\ pc[p] = "p_loop" /\ nframes[p] = 1
    /\ role[x] = "consumer" /\ vs[x] = vs[p] /\ ~alive[x] /\ pc[x] = "c_loop"
    /\ ~InList(x, vsConsumers[vs[p]])
    /\ InList(y, vsConsumers[vs[p]])
    /\ CountOf(outbox[y], Msg("frame", p, 1, FALSE)) = 1

\* The step in which a registered consumer's handler leaves its loop (the
\* transport closed, a stop message, or any exception of receive_json) and
\* runs its teardown.
ConsumerLeaves(c) == pc[c] = "c_loop" /\ pc'[c] = "done"

\* After the step no registry entry and no handler refers to object o.
Unreferenced(o) ==
  /\ \A s \in RelaySessions : mobile_video_sessions'[s] # o
  /\ \A d \in Conns : vs'[d] # o

\* C39: when a consumer disconnects or sends stop, only that connection is
\* removed from the consumer set: the producer slot, the other consumers,
\* the frame counter and the session status are unchanged and no notice is
\* broadcast.
C39_ConsumerLeaveTouchesOnlyItself ==
  [][\A c \in Conns :
       ConsumerLeaves(c) =>
         /\ vsConsumers'[vs[c]] =
              SelectSeq(vsConsumers[vs[c]], LAMBDA x : x # c)
         /\ \A o \in Objs \ {vs[c]} : vsConsumers'[o] = vsConsumers[o]
         /\ vsProducer' = vsProducer
         /\ status' = status
         /\ \A d \in Conns \ {c} : outbox'[d] = outbox[d]
         /\ \A o \in Objs :
              \/ vsFrameCount'[o] = vsFrameCount[o]
              \/ o = vs[c] /\ Unreferenced(o)]_vars

\* A consumer registered before the producer has left during the relay:
\* the producer is still attached with a frame counted, another consumer
\* is still registered and was sent no producer_disconnected, and the
\* status is recording.
C39_Witness ==
  \E p, c, y \in Conns :
    /\ pc[p] = "p_loop" /\ vsProducer[vs[p]] = p /\ nframes[p] >= 1
    /\ c \in atReg[p] /\ pc[c] = "done" /\ ~pruned[c]
    /\ y # c /\ ConsumerRegistered(y) /\ InList(y, vsConsumers[vs[p]])
    /\ vsFrameCount[vs[p]] = nframes[p]
    /\ status[sid[p]] = "recording"
    /\ \A i \in 1..Len(outbox[y]) : outbox[y][i].type # "producer_disconnected"

\* ------------------------------------------------------ capture path claims
LoopPcs == {"v_read", "v_recv", "v_sleep"}

CleanupPcs == {"v_lock_stop", "v_status_done"}

Streaming(v) == vpc[v] \in LoopPcs

OpenHandles(s) == {h \in Viewers : hstate[h] = "open" /\ vsid[h] = s}

Registered(s) ==
  IF active_cameras[s] = None THEN {} ELSE {active_cameras[s]}

\* The step in which v's start_capture runs its body.
StartCaptureRuns(v) ==
  vpc[v] \in {"idle", "v_lock_start"} /\ vpc'[v] \notin {"idle", "v_lock_start"}

\* C6: in every interleaving of start_capture calls the open handles of a
\* session are exactly the one registered for it (never two), and a call
\* that finds an adapter registered returns success without opening.
C6_StartCaptureIdempotent ==
  /\ [](\A s \in CaptureSessions :
          /\ OpenHandles(s) = Registered(s)
          /\ Cardinality(OpenHandles(s)) <= 1)
  /\ [][\A v \in Viewers :
          (StartCaptureRuns(v) /\ active_cameras[vsid'[v]] # None)
            => /\ vpc'[v] = "v_status_rec"
               /\ hstate' = hstate
               /\ active_cameras' = active_cameras
               /\ camLock' = None]_vars

\* Two calls for one session overlapped (the second queued for the lock
\* while the first was opening); both returned success, one handle exists.
C6_Witness ==
  \E v, w \in Viewers :
    /\ v # w /\ vsid[v] = vsid[w]
    /\ waited[w] /\ hstate[w] = "closed" /\ vpc[w] = "v_status_rec"
    /\ hstate[v] = "open" /\ active_cameras[vsid[v]] = v
    /\ OpenHandles(vsid[v]) = {v}

\* C7: every way out of the streaming loop (stop message, transport
\* closed, exception) enters the same cleanup; the cleanup leaves no
\* adapter registered for the session and releases the one it found, then
\* sets the status to completed; nothing is sent once the loop was left.
C7_StopAndCloseCleanup ==
  [][\A v \in Viewers :
       /\ (Streaming(v) /\ ~Streaming(v)')
            => /\ vpc'[v] \in CleanupPcs
               /\ vend'[v] \in {"stop", "disconnect", "error"}
               /\ vout'[v] = vout[v]
       /\ (vpc[v] \in LoopPcs \cup {"v_lock_stop"}
             /\ vpc'[v] = "v_status_done")
            => /\ active_cameras'[vsid[v]] = None
               /\ Registered(vsid[v]) \subseteq
                    {h \in Viewers : hstate'[h] = "released"}
       /\ (vpc[v] \in CleanupPcs /\ vpc'[v] # vpc[v])
            => /\ vout'[v] \in {vout[v], <<>>}
               /\ vpc'[v] \in {"v_status_done", "done"}
               /\ vpc'[v] = "done" => vstatus'[vsid[v]] = "completed"
       /\ (vpc[v] = "done") => vout'[v] = <<>>]_vars

\* One viewer ended by a stop message and one by a closed transport, both
\* cleaned up: handles released, registry empty, status completed.
C7_Witness ==
  \E v, w \in Viewers :
    /\ vpc[v] = "done" /\ vend[v] = "stop"
    /\ vpc[w] = "done" /\ vend[w] = "disconnect"
    /\ vsid[v] # vsid[w]
    /\ hstate[v] = "released" /\ hstate[w] = "released"
    /\ \A s \in CaptureSessions :
         active_cameras[s] = None /\ vstatus[s] = "completed"

\* C8: while a viewer of a session is streaming, the session's adapter
\* stays registered.
C8_AdapterKeptWhileStreaming ==
  \A v \in Viewers :
    Streaming(v) => active_cameras[vsid[v]] # None

\* C15: a viewer whose start_capture returned failure has been accepted
\* and sent the error message and nothing else; at that point no adapter
\* is registered for its session and none was opened for it; the handler
\* then closes the connection and ends without sending or registering
\* anything.
C15_OpenFailureErrorThenClose ==
  /\ [](\A v \in Viewers :
          /\ vpc[v] = "v_err" => vout[v] = <<"error">> /\ hstate[v] = "closed"
          /\ vend[v] = "open_failed"
               => vpc[v] = "done" /\ vout[v] = <<>> /\ hstate[v] = "closed")
  /\ [][\A v \in Viewers :
          /\ (vpc'[v] = "v_err" /\ vpc[v] # "v_err")
               => /\ vpc[v] \in {"idle", "v_lock_start", "v_opening"}
                  /\ active_cameras'[vsid'[v]] = None
          /\ (vpc[v] = "v_err" /\ vpc'[v] # "v_err")
               => /\ vpc'[v] = "done" /\ vend'[v] = "open_failed"
                  /\ active_cameras' = active_cameras
                  /\ hstate' = hstate]_vars

\* One viewer failed on a source that could not be opened, one on a
\* locator of unknown form; both ended and nothing is registered.
C15_Witness ==
  \E v, w \in Viewers :
    /\ vend[v] = "open_failed"
    /\ SourceBranch(source_path[vsid[v]]) = "device"
    /\ vend[w] = "open_failed"
    /\ SourceBranch(source_path[vsid[w]]) = "unknown"
    /\ \A s \in CaptureSessions : active_cameras[s] = None

\* The locator has the form device:<integer>.
IsDeviceForm(source) ==
  /\ StartsWith(source, <<"device", ":">>)
  /\ IsInteger(SubSeq(source, 3, Len(source)))

\* The locator is a URL with one of the four schemes.
IsUrlForm(source) ==
  \E scheme \in UrlSchemes : StartsWith(source, <<scheme, "://">>)

\* For the session of viewer v no open runs or has succeeded and no adapter
\* is registered; its start_capture has returned failure if it has run.
NothingOpened(v) ==
  /\ vpc[v] \in {"v_lock_start", "v_err", "done"}
  /\ vpc[v] = "done" => vend[v] = "open_failed"
  /\ hstate[v] = "closed"
  /\ active_cameras[vsid[v]] = None

\* C24: for a locator that is neither device:<integer> nor a URL with
\* scheme udp, rtsp, http or https, start_capture returns failure, opens
\* nothing and registers no adapter.
C24_MalformedLocatorRejected ==
  \A v \in Viewers :
    (/\ vsid[v] \in CaptureSessions
     /\ ~IsDeviceForm(source_path[vsid[v]])
     /\ ~IsUrlForm(source_path[vsid[v]]))
      => NothingOpened(v)

\* C24 as amended: for a locator that neither starts with device: nor with
\* udp://, rtsp://, http:// or https://, start_capture returns failure,
\* opens nothing and registers no adapter.
C24_UnknownPrefixRejected ==
  \A v \in Viewers :
    (/\ vsid[v] \in CaptureSessions
     /\ SourceBranch(source_path[vsid[v]]) = "unknown")
      => NothingOpened(v)

\* Start_capture has failed for a URL of another scheme and for a bare name.
C24_Witness ==
  \E v, w \in Viewers :
    /\ vend[v] = "open_failed" /\ vsid[v] \in CaptureSessions
    /\ source_path[vsid[v]] = <<"ftp", "://", "cam">>
    /\ vend[w] = "open_failed" /\ vsid[w] \in CaptureSessions
    /\ source_path[vsid[w]] = <<"cam">>
    /\ \A s \in CaptureSessions : active_cameras[s] = None

\* The step is the critical section of a stop_capture call made by v.
StopCaptureRuns(v) ==
  /\ vpc[v] \in LoopPcs \cup {"v_lock_stop"}
  /\ vpc'[v] = "v_status_done"

\* C25: stop_capture for a session id without a registered adapter changes
\* neither the registry nor any handle; a registered adapter is open, so
\* the call that finds one releases it for the first time and unregisters
\* it, and further calls find nothing: each handle is released once.
C25_StopCaptureIdempotent ==
  /\ [](\A s \in CaptureSessions :
          active_cameras[s] # None => hstate[active_cameras[s]] = "open")
  /\ [][\A v \in Viewers :
          /\ StopCaptureRuns(v) =>
               IF active_cameras[vsid[v]] = None
               THEN active_cameras' = active_cameras /\ hstate' = hstate
               ELSE /\ active_cameras' =
                         [active_cameras EXCEPT ![vsid[v]] = None]
                    /\ hstate[active_cameras[vsid[v]]] = "open"
                    /\ hstate' = [hstate EXCEPT
                                    ![active_cameras[vsid[v]]] = "released"]
          /\ hstate[v] = "released" => hstate'[v] = "released"
          /\ (hstate'[v] = "released" /\ hstate[v] # "released")
               => \E w \in Viewers : StopCaptureRuns(w)]_vars

\* Two viewers of one session have both run stop_capture: the one handle
\* opened for the session is released, and nothing is registered.
C25_Witness ==
  \E v, w \in Viewers :
    /\ v # w /\ vsid[v] = vsid[w] /\ vsid[v] \in CaptureSessions
    /\ vpc[v] = "done" /\ vend[v] \in {"stop", "disconnect"}
    /\ vpc[w] = "done" /\ vend[w] \in {"stop", "disconnect"}
    /\ hstate[v] = "released" /\ hstate[w] = "closed"
    /\ active_cameras[vsid[v]] = None

\* C29: once every viewer connection of a session has ended, whichever way,
\* no adapter is registered for the session and every handle opened for it
\* is released.
C29_AdapterReleasedAfterEnd ==
  \A s \in CaptureSessions :
    (/\ \E v \in Viewers : vsid[v] = s
     /\ \A v \in Viewers : vsid[v] = s => vpc[v] = "done")
      => active_cameras[s] = None /\ OpenHandles(s) = {}

\* The same of the connections that left through the streaming loop.
LoopExitReleasesAdapter ==
  \A s \in CaptureSessions :
    (/\ \E v \in Viewers : vsid[v] = s
     /\ \A v \in Viewers :
          vsid[v] = s => vpc[v] = "done" /\ vend[v] # "setup_failed")
      => active_cameras[s] = None /\ OpenHandles(s) = {}

\* C16: when a viewer's source could not be opened, the status of its
\* session is error once its handler has ended.
C16_OpenFailureStatusError ==
  \A v \in Viewers :
    vend[v] = "open_failed" => vstatus[vsid[v]] = "error"

\* C20: in the viewer's streaming loop a failed read (capture_frame gave
\* nothing) adds one to the failure counter and goes on to the receive
\* poll of the same iteration: the loop is not left, nothing is sent, the
\* status and the frame counter stay, however many reads failed before;
\* and a read that succeeds after failures is sent as a frame.
C20_FailedReadTolerated ==
  [][\A v \in Viewers :
       /\ failed_frames'[v] > failed_frames[v]
            => /\ failed_frames'[v] = failed_frames[v] + 1
               /\ vpc'[v] = "v_recv" /\ vend'[v] = "none"
               /\ vout'[v] = vout[v]
               /\ frame_count'[v] = frame_count[v]
               /\ vstatus' = vstatus
       /\ (/\ vpc[v] = "v_read" /\ failed_frames[v] > 0
           /\ frame_count'[v] # frame_count[v] /\ vend'[v] = "none")
            => /\ vout'[v] = Append(vout[v], "frame")
               /\ vpc'[v] = "v_recv"]_vars

\* One viewer is in its loop after two failed reads in a row, its status
\* still recording; another was sent a frame in a run with a failed read.
C20_Witness ==
  \E v, w \in Viewers :
    /\ failed_frames[v] = 2 /\ frame_count[v] = 0
    /\ vpc[v] = "v_recv" /\ vend[v] = "none"
    /\ vstatus[vsid[v]] = "recording"
    /\ active_cameras[vsid[v]] # None
    /\ failed_frames[w] = 1 /\ frame_count[w] = 1
    /\ vout[w][Len(vout[w])] = "frame"

\* C31: no frame read is started on, or still running on, an adapter handle
\* that stop_capture has released, whatever the interleaving of
\* capture_frame and stop_capture for the same session id.
C31_NoReadOnReleasedHandle ==
  \A v \in Viewers :
    reading[v] # None => hstate[reading[v]] # "released"

\* The part of C31 that the code keeps: capture_frame takes its handle from
\* the registry, which never holds a released handle, so no read is started
\* on a released handle.
NoReadStartedOnReleased ==
  [][\A v \in Viewers :
       (reading[v] = None /\ reading'[v] # None)
         => hstate[reading'[v]] = "open"]_vars

NoReadStartedWitness ==
  \E v \in Viewers : reading[v] # None /\ hstate[reading[v]] = "open"

\* C32: the registry lock is never held while a blocking open of a source
\* runs, so no start_capture or stop_capture for one session id waits for
\* the open of another session's source.
C32_LockNotHeldAcrossOpen ==
  \A v \in Viewers :
    vpc[v] = "v_opening" =>
      /\ camLock # v
      /\ \A w \in Viewers \ {v} :
           (vpc[w] \in {"v_lock_start", "v_lock_stop"}) => vsid[w] = vsid[v]

\* ----------------------------------------------------------- event hub claims
\* What holds of the step in which broadcast t ends with outcome `how`: no
\* connection whose send raised is left subscribed, nothing else was
\* removed by it, no connection was sent the message twice, and every
\* connection of the previous set that is still subscribed was sent it.
EndsPruned(t, how) ==
  (bpc[t] = "b_send" /\ bpc'[t] \in how) =>
    /\ dead_connections[t] \cap active_connections'[bsession[t]] = {}
    /\ active_connections[bsession[t]] \ active_connections'[bsession[t]]
         \subseteq dead_connections[t]
    /\ \A w \in Subs : sent[t][w] <= 1
    /\ \A w \in bstart[t] \cap active_connections'[bsession[t]] :
         sent[t][w] = 1

\* C9: when a broadcast some of whose sends raised has ended, exactly the
\* connections whose send raised were removed from the session's set, and
\* the others of the previous set are subscribed and were sent the
\* message once.
C9_BroadcastRemovesDead ==
  [][\A t \in Tasks : EndsPruned(t, {"b_done", "b_raised"})]_vars

\* The same of the broadcasts that return normally.
ReturnedBroadcastRemovesDead ==
  [][\A t \in Tasks : EndsPruned(t, {"b_done"})]_vars

\* A broadcast returned after a send that raised and one that succeeded.
ReturnedBroadcastWitness ==
  \E t \in Tasks :
    /\ bpc[t] = "b_done"
    /\ dead_connections[t] # {}
    /\ \E w \in bstart[t] :
         sent[t][w] = 1 /\ w \in active_connections[bsession[t]]
    /\ dead_connections[t] \cap active_connections[bsession[t]] = {}

\* Broadcast t has ended in one of the ways of how: no connection was sent
\* its message twice, none subscribed to another session id was sent it,
\* and every connection subscribed when it was called and still subscribed
\* was sent it, unless that send raised.
SentToSubscribers(t, how) ==
  /\ \A w \in Subs : sent[t][w] <= 1
  /\ \A w \in Subs : sent[t][w] = 1 => hsid[w] = bsession[t]
  /\ bpc[t] \in how
       => \A w \in (bstart[t] \cap active_connections[bsession[t]])
                     \ dead_connections[t] : sent[t][w] = 1

\* C22: broadcast(s, m) sends m exactly once to every connection subscribed
\* to s and to no connection of another session id; for an s without
\* subscribers it sends nothing and changes nothing.
C22_BroadcastToSubscribers ==
  \A t \in Tasks : SentToSubscribers(t, {"b_done", "b_raised"})

\* The same of the broadcasts that return normally.
ReturnedBroadcastSentToAll ==
  \A t \in Tasks : SentToSubscribers(t, {"b_done"})

\* A broadcast returned after two sends while another session id has a
\* subscriber, which was sent nothing.
ReturnedBroadcastSentWitness ==
  \E t \in Tasks : \E w, x, y \in Subs :
    /\ bpc[t] = "b_done" /\ w # x
    /\ {w, x} \subseteq active_connections[bsession[t]]
    /\ sent[t][w] = 1 /\ sent[t][x] = 1
    /\ hsid[y] \in HubSessions \ {bsession[t]}
    /\ y \in active_connections[hsid[y]]
    /\ sent[t][y] = 0

\* The connections connect was called for with session id s and disconnect
\* was not.
ConnectedTo(s) ==
  {w \in Subs : hpc[w] # "idle" /\ hsid[w] = s /\ w \notin disconnected}

\* C23: whatever connect and disconnect calls were made, the set of each
\* session id is the connections connected to it and not disconnected,
\* get_connection_count is its size, 0 for an id that is no key, no key
\* maps to an empty set, and a call changes the set and the key of its
\* own session id only.
C23_SetsMatchConnections ==
  /\ [](\A s \in HubSessions :
          /\ active_connections[s] = ConnectedTo(s)
          /\ get_connection_count(s) = Cardinality(ConnectedTo(s))
          /\ s \in conn_keys <=> active_connections[s] # {})
  /\ [][\A s \in HubSessions :
          (\/ active_connections'[s] # active_connections[s]
           \/ (s \in conn_keys') # (s \in conn_keys))
            => \/ \E w \in Subs : hsid'[w] = s /\ hpc'[w] # hpc[w]
               \/ \E t \in Tasks : bsession[t] = s /\ bpc'[t] # bpc[t]]_vars

\* One session id has lost a subscriber and kept another; the other id has
\* lost its only subscriber and is no key any more.
C23_Witness ==
  \E w, x, y \in Subs :
    /\ w \in disconnected /\ hsid[x] = hsid[w]
    /\ x \in active_connections[hsid[x]]
    /\ get_connection_count(hsid[x]) = 1
    /\ y \in disconnected /\ hsid[y] # hsid[w]
    /\ hsid[y] \notin conn_keys /\ get_connection_count(hsid[y]) = 0

\* C33: a broadcast that runs while connect or disconnect calls for its
\* session id are made ends without raising, and every connection that is
\* subscribed from its call to its end was sent the message, unless the
\* send to it raised.
C33_ConcurrentBroadcastCompletes ==
  \A t \in Tasks :
    /\ bpc[t] # "b_raised"
    /\ bpc[t] = "b_done" =>
         \A w \in bstart[t] \ (disconnected \cup dead_connections[t]) :
           sent[t][w] = 1

\* C34: when the handler of a subscriber connection has ended, for whatever
\* reason, the connection is in no subscriber set.
C34_EndedHandlerUnsubscribed ==
  \A w \in Subs :
    hpc[w] = "done" => \A s \in HubSessions : w \notin active_connections[s]

\* The part of C34 the code keeps: a handler that ends on the transport's
\* disconnect seen by receive_text leaves no entry behind.
DisconnectSeenUnsubscribes ==
  [][\A w \in Subs :
       (hpc[w] = "h_loop" /\ ~halive[w] /\ hpc'[w] = "done")
         => \A s \in HubSessions : w \notin active_connections'[s]]_vars

DisconnectSeenWitness ==
  \E w \in Subs : hpc[w] = "done" /\ w \in disconnected

\* ------------------------------------------------------------ gateway claims
\* The token is missing, is rejected by jwt.decode, or names no principal.
TokenFails(tok) == ~tok.given \/ ~tok.decodes \/ tok.sub = NoPrincipal

\* C13: on both endpoints an attempt whose token is missing or does not
\* verify is closed with 4001, is never accepted or attached, and no
\* session lookup is made for it; 4001 is used for nothing else.
C13_AuthBeforeLookup ==
  \A g \in Gates :
    /\ (gpc[g] # "new" /\ TokenFails(token[g]))
         => /\ gpc[g] = "closed" /\ close_code[g] = AuthRequired
            /\ attached[g] = "none" /\ lookups[g] = 0
    /\ close_code[g] = AuthRequired => TokenFails(token[g])

\* One attempt without a token on the events endpoint and one with a token
\* that does not decode on the video endpoint, both closed with 4001.
C13_Witness ==
  \E g, h \in Gates :
    /\ endpoint[g] = "events" /\ ~token[g].given
    /\ endpoint[h] = "video" /\ token[h].given /\ ~token[h].decodes
    /\ token[h].sub = SessionOwner(session_id[h])
    /\ close_code[g] = AuthRequired /\ close_code[h] = AuthRequired
    /\ gpc[g] = "closed" /\ gpc[h] = "closed"

\* C14: an attempt is accepted and attached (to the capture pipeline, a
\* relay session or the subscriber set) only when its token verifies to the
\* principal that owns an existing row of the session id; any other attempt
\* ends closed, unaccepted and unattached, and is sent nothing.
C14_OnlyOwnerAttached ==
  \A g \in Gates :
    /\ (gpc[g] = "accepted" \/ attached[g] # "none")
         => /\ ~TokenFails(token[g])
            /\ SessionOwner(session_id[g]) = token[g].sub
            /\ gpc[g] = "accepted" /\ attached[g] # "none"
            /\ close_code[g] = 0
    /\ (gpc[g] = "closed" /\ ~TokenFails(token[g]))
         => /\ SessionOwner(session_id[g]) # token[g].sub
            /\ close_code[g] = SessionNotFound
    /\ gpc[g] \in {"lookup", "closed"} => attached[g] = "none" /\ gsent[g] = <<>>

\* p1 with a good token is refused the session of p2 and a session that
\* does not exist, while p2 is attached to its own.
C14_Witness ==
  \E g, h \in Gates :
    /\ token[g].decodes /\ token[g].sub = "p1"
    /\ session_id[g] \in {"G2", "G3"}
    /\ gpc[g] = "closed" /\ close_code[g] = SessionNotFound
    /\ token[h].decodes /\ token[h].sub = "p2" /\ session_id[h] = "G2"
    /\ gpc[h] = "accepted" /\ attached[h] \in {"relay", "subscribers"}


\* C19: a connection the server closes because the session does not exist
\* or is not the principal's has been sent messages, and the last of them
\* is a typed error message.
C19_ErrorBeforeClose ==
  \A g \in Gates :
    close_code[g] = SessionNotFound
      => /\ Len(gsent[g]) > 0
         /\ gsent[g][Len(gsent[g])].type = "error"

====
